---- MODULE Spec2Model ----
(***************************************************************************)
(* External Commerce Synchronization Engine (smartbacco/696).              *)
(*                                                                         *)
(* Part 1: outbound order status sync and retry                            *)
(*         (services/order-status-sync.service.ts, orders routes).         *)
(* Part 2: order import, batch and webhook (OrderImportService).           *)
(* Part 3: inventory export (InventorySyncService).                        *)
(* Part 4: the status of inbound orders (importOrder,                      *)
(*         RetailerSyncService.syncOrderWithLocation).                     *)
(* Part 5: webhook intake and retry (webhooks routes).                     *)
(* Part 6: API keys (IntegrationService, authenticateApiKey).              *)
(* Part 7: request signing (WooCommerceClient).                            *)
(* Part 8: stock updates of the platform client (WooCommerceClient).       *)
(* Part 9: product mappings, created by hand and by SKU match              *)
(*         (integrations routes, InventorySyncService).                    *)
(*                                                                         *)
(* Conventions: "" stands for null / undefined / an empty string; a table  *)
(* is a sequence of rows and a row's id is its position.  A datastore or   *)
(* platform call whose error the code inspects can fail: the environment   *)
(* of a call names the first step that fails (the steps of a handler run   *)
(* in sequence, so the steps after the first failure are never run).       *)
(***************************************************************************)
EXTENDS Integers, Sequences, FiniteSets, TLC

\* ----------------------------------------------------------------- bounds
MaxLogs == 1
MaxSegregationLogs == 2
MaxCeilingLogs == 6
MaxStatusLogs == 1
MaxRouteLogs == 2
MaxAttempts == 6
MaxSyncLogs == 2
MaxRunLogs == 1
MaxItemRuns == 1

\* ------------------------------------------------------------ value sets
Channels == {"WHOLESALE", "ONLINE"}
PlatformTypes == {"WOOCOMMERCE", "KUBACCO_APP", "SHOPIFY"}
IntegrationIds == {"i1"}
\* the ids the datastore gives to the rows of ops_orders, in this order
OrderIds == {1}
ImportOrderIds == {1, 2, 3}
OrderStatuses == {"PROCESSING", "READY_TO_SHIP", "SHIPMENT_CREATED", "PACKAGING",
                  "SHIPPED", "IN_TRANSIT", "DELIVERED", "CANCELLED", "RETURNED"}
\* the status of a new order, and the status pushed, where one of each is enough
CreatedStatuses == {"PROCESSING"}
PushedStatuses == {"IN_TRANSIT"}
\* the log rows whose retries are counted
TrackedLogIds == {1}
\* external order ids an order row may carry: none, or a number
ExternalOrderIds == {"", "17"}
MaxRetries == 5

VARIABLES ops_orders, integrations, outbound_logs, retryAttempts, lastCall,
          ops_order_items, sync_logs, lastRun,
          product_mappings, warehouse_inventory, woo_stock, imports,
          ops_customers, customer_locations, webhook_queue, api_keys, retries

vars == <<ops_orders, integrations, outbound_logs, retryAttempts, lastCall,
          ops_order_items, sync_logs, lastRun,
          product_mappings, warehouse_inventory, woo_stock, imports,
          ops_customers, customer_locations, webhook_queue, api_keys, retries>>

\* the retailers and their locations, the webhook queue and the API keys
registryVars == <<ops_customers, customer_locations, webhook_queue, api_keys>>

\* the product mappings, the warehouse stock and the stock the shop shows
exportVars == <<product_mappings, warehouse_inventory, woo_stock>>

\* the state the status sync and the order routes leave alone
pipelineVars == <<ops_order_items, sync_logs, lastRun, exportVars, imports, registryVars>>

\* --------------------------------------------------------- pure functions
validCombinations(orderChannel) ==
    CASE orderChannel = "WHOLESALE" -> "KUBACCO_APP"
      [] orderChannel = "ONLINE" -> "WOOCOMMERCE"
      [] OTHER -> ""

\* variant: the check never throws
validateChannelSegregationDisabled(orderChannel, platformType) == TRUE

\* TRUE when the check passes, FALSE when it throws
validateChannelSegregation(orderChannel, platformType) ==
    platformType = validCombinations(orderChannel)

mapToWooCommerceStatus(warehouseStatus) ==
    CASE warehouseStatus = "PROCESSING" -> "processing"
      [] warehouseStatus = "READY_TO_SHIP" -> "processing"
      [] warehouseStatus = "SHIPMENT_CREATED" -> "processing"
      [] warehouseStatus = "PACKAGING" -> "processing"
      [] warehouseStatus = "SHIPPED" -> "completed"
      [] warehouseStatus = "IN_TRANSIT" -> "completed"
      [] warehouseStatus = "DELIVERED" -> "completed"
      [] warehouseStatus = "CANCELLED" -> "cancelled"
      [] warehouseStatus = "RETURNED" -> "refunded"
      [] OTHER -> "processing"

\* variant: the Kubacco table is the WooCommerce table
mapToKubaccoStatusAsWooCommerce(warehouseStatus) ==
    mapToWooCommerceStatus(warehouseStatus)

mapToKubaccoStatus(warehouseStatus) ==
    CASE warehouseStatus = "PROCESSING" -> "processing"
      [] warehouseStatus = "READY_TO_SHIP" -> "processing"
      [] warehouseStatus = "SHIPMENT_CREATED" -> "processing"
      [] warehouseStatus = "PACKAGING" -> "processing"
      [] warehouseStatus = "SHIPPED" -> "completed"
      [] warehouseStatus = "IN_TRANSIT" -> "in-transit"
      [] warehouseStatus = "DELIVERED" -> "completed"
      [] warehouseStatus = "CANCELLED" -> "cancelled"
      [] warehouseStatus = "RETURNED" -> "refunded"
      [] OTHER -> "processing"

\* isNaN(parseInt(external_order_id)) on the ids of ExternalOrderIds
parseIntIsNaN(externalOrderId) == externalOrderId \notin {"17"}

\* ------------------------------------------------------------------ rows
\* (error_message, synced_at and last_retry_at are written but never read by
\* the service; they are left out of the row)
createSyncLog(orderId, integrationId, platformType, channel, oldStatus, newStatus, result) ==
    [order_id |-> orderId, integration_id |-> integrationId,
     platform_type |-> platformType, channel |-> channel,
     old_status |-> oldStatus, new_status |-> newStatus,
     result |-> result, retry_count |-> 0]

\* the first step of a call that fails, and whether the insert made by the
\* catch block of syncStatusToExternalPlatform is accepted
FailurePoints == {"none", "logRead", "orderRead", "integrationRead", "platform", "insert"}
Envs == [fail : FailurePoints, catchInsertOk : BOOLEAN]

\* what the body of a try block did: thrown or returned, the platform call it
\* made (called = "NONE": no call) and the rows it inserted
Thrown(msg, called, sent) ==
    [thrown |-> TRUE, error |-> msg, called |-> called, sent |-> sent,
     rows |-> <<>>, platformType |-> ""]

Returned(platformType, sent, row) ==
    [thrown |-> FALSE, error |-> "", called |-> platformType, sent |-> sent,
     rows |-> <<row>>, platformType |-> platformType]

syncToWooCommerce(orderId, order, integrationId, newStatus, oldStatus, wooCommerceClient, env) ==
    IF ~wooCommerceClient
      THEN Thrown("WooCommerceClient not provided", "NONE", "")
    ELSE IF parseIntIsNaN(order.external_order_id)
      THEN Thrown("Invalid WooCommerce order ID", "NONE", "")
    ELSE LET wooStatus == mapToWooCommerceStatus(newStatus) IN
      IF env.fail = "platform"
        THEN Thrown("WooCommerce API Error", "WOOCOMMERCE", wooStatus)
      ELSE IF env.fail = "insert"
        \* syncLog.data!.id on a rejected insert
        THEN Thrown("TypeError", "WOOCOMMERCE", wooStatus)
      ELSE Returned("WOOCOMMERCE", wooStatus,
                    createSyncLog(orderId, integrationId, "WOOCOMMERCE", order.channel,
                                  oldStatus, newStatus, "SUCCESS"))

syncToKubacco(orderId, order, integrationId, integration, newStatus, oldStatus, env) ==
    IF order.external_order_id = ""
      THEN Thrown("No Kubacco order ID found", "NONE", "")
    ELSE LET kubacoStatus == mapToKubaccoStatus(newStatus) IN
      IF ~integration.apiKey
        THEN Thrown("Kubacco API key not configured", "NONE", "")
      ELSE IF env.fail = "platform"
        THEN Thrown("Kubacco API error", "KUBACCO_APP", kubacoStatus)
      ELSE IF env.fail = "insert"
        THEN Thrown("TypeError", "KUBACCO_APP", kubacoStatus)
      ELSE Returned("KUBACCO_APP", kubacoStatus,
                    createSyncLog(orderId, integrationId, "KUBACCO_APP", order.channel,
                                  oldStatus, newStatus, "SUCCESS"))

OrderFound(orders, orderId, env) ==
    env.fail # "orderRead" /\ orderId \in DOMAIN orders /\ orders[orderId].stored
IntegrationFound(ints, integrationId, env) ==
    env.fail # "integrationRead" /\ integrationId \in DOMAIN ints

\* the try block of syncStatusToExternalPlatform
syncTry(orders, ints, orderId, newStatus, wooCommerceClient, env) ==
    IF ~OrderFound(orders, orderId, env)
      THEN Thrown("Order not found", "NONE", "")
    ELSE LET order == orders[orderId] IN
      IF ~IntegrationFound(ints, order.integration_id, env)
        THEN Thrown("Integration not found for order", "NONE", "")
      ELSE LET integration == ints[order.integration_id] IN
        IF ~validateChannelSegregation(order.channel, integration.platform_type)
          THEN Thrown("Channel segregation violation", "NONE", "")
        ELSE IF integration.platform_type = "WOOCOMMERCE"
          THEN syncToWooCommerce(orderId, order, order.integration_id, newStatus,
                                 order.status, wooCommerceClient, env)
        ELSE IF integration.platform_type = "KUBACCO_APP"
          THEN syncToKubacco(orderId, order, order.integration_id, integration,
                             newStatus, order.status, env)
        ELSE Thrown("Unsupported platform type", "NONE", "")

\* variant: the catch block records the order's integration and its platform
syncCatchRecordingRoute(t, orderId, newStatus, catchInsertOk) ==
    LET known == orderId \in DOMAIN ops_orders /\ ops_orders[orderId].stored
                   /\ ops_orders[orderId].integration_id \in DOMAIN integrations
        order == ops_orders[orderId]
    IN
    [success |-> FALSE, error |-> t.error, threw |-> FALSE,
     called |-> t.called, sent |-> t.sent, platformType |-> "UNKNOWN",
     rowInsertOk |-> catchInsertOk,
     rows |-> IF ~catchInsertOk THEN <<>>
              ELSE IF known
                THEN <<createSyncLog(orderId, order.integration_id,
                                     integrations[order.integration_id].platform_type,
                                     order.channel, order.status, newStatus, "FAILED")>>
              ELSE <<createSyncLog(orderId, "", "UNKNOWN", "", "", newStatus, "FAILED")>>]

\* variant: the catch block writes no row
syncCatchWithoutLog(t, orderId, newStatus, catchInsertOk) ==
    [success |-> FALSE, error |-> t.error, threw |-> FALSE,
     called |-> t.called, sent |-> t.sent, platformType |-> "UNKNOWN",
     rowInsertOk |-> catchInsertOk, rows |-> <<>>]

\* the catch block of syncStatusToExternalPlatform: a FAILED row (when the
\* insert is accepted) and a failure result; nothing is rethrown
syncCatch(t, orderId, newStatus, catchInsertOk) ==
    [success |-> FALSE, error |-> t.error, threw |-> FALSE,
     called |-> t.called, sent |-> t.sent, platformType |-> "UNKNOWN",
     rowInsertOk |-> catchInsertOk,
     rows |-> IF catchInsertOk
                THEN <<createSyncLog(orderId, "", "UNKNOWN", "", "", newStatus, "FAILED")>>
                ELSE <<>>]

SuccessResult(t) ==
    [success |-> TRUE, error |-> "", threw |-> FALSE,
     called |-> t.called, sent |-> t.sent, platformType |-> t.platformType,
     rowInsertOk |-> TRUE, rows |-> t.rows]

syncStatusToExternalPlatform(orders, ints, orderId, newStatus, wooCommerceClient, env) ==
    LET t == syncTry(orders, ints, orderId, newStatus, wooCommerceClient, env) IN
    IF t.thrown THEN syncCatch(t, orderId, newStatus, env.catchInsertOk)
    ELSE SuccessResult(t)

\* retry_count written by the catch block of retrySyncLog:
\*   data?.retry_count || 0 + 1   parses as   data?.retry_count || (0 + 1)
retryCountAfterFailure(current) == IF current = 0 THEN 0 + 1 ELSE current

\* retry_count written after a retry whose platform call succeeded
retryCountAfterSuccess(readCount) == readCount + 1

retryCeilingReached(retryCount) == retryCount >= MaxRetries

\* the try block of retrySyncLog
retryTry(logs, orders, ints, syncLogId, wooCommerceClient, env) ==
    IF ~(env.fail # "logRead" /\ syncLogId \in 1..Len(logs))
      THEN Thrown("Sync log not found", "NONE", "")
    ELSE LET syncLog == logs[syncLogId] IN
      IF retryCeilingReached(syncLog.retry_count)
        THEN Thrown("Maximum retry attempts exceeded (5)", "NONE", "")
      ELSE IF ~OrderFound(orders, syncLog.order_id, env)
        THEN Thrown("Order not found", "NONE", "")
      ELSE IF ~IntegrationFound(ints, syncLog.integration_id, env)
        THEN Thrown("Integration not found", "NONE", "")
      ELSE LET order == orders[syncLog.order_id]
               integration == ints[syncLog.integration_id] IN
        IF syncLog.platform_type = "WOOCOMMERCE"
          THEN syncToWooCommerce(syncLog.order_id, order, syncLog.integration_id,
                                 syncLog.new_status, syncLog.old_status,
                                 wooCommerceClient, env)
        ELSE IF syncLog.platform_type = "KUBACCO_APP"
          THEN syncToKubacco(syncLog.order_id, order, syncLog.integration_id,
                             integration, syncLog.new_status, syncLog.old_status, env)
        ELSE Thrown("Unknown platform type", "NONE", "")

\* the catch block of retrySyncLog returns a failure result
retryCatch(t) ==
    [success |-> FALSE, error |-> t.error, threw |-> FALSE,
     called |-> t.called, sent |-> t.sent, platformType |-> "",
     rowInsertOk |-> TRUE, rows |-> <<>>]

\* the row update made by retrySyncLog (either path)
retryUpdateRow(row, t) ==
    IF t.thrown
      THEN [row EXCEPT !.retry_count = retryCountAfterFailure(row.retry_count)]
      ELSE [row EXCEPT !.retry_count = retryCountAfterSuccess(row.retry_count)]

\* retrySyncLog: the result, and the try block's outcome that decides the update
retrySyncLog(logs, orders, ints, syncLogId, wooCommerceClient, env) ==
    LET t == retryTry(logs, orders, ints, syncLogId, wooCommerceClient, env) IN
    [t |-> t, r |-> IF t.thrown THEN retryCatch(t) ELSE SuccessResult(t)]

\* ----------------------------------------------------------- last call
\* what the last handler did, as its caller and the platforms saw it
NoCall ==
    [op |-> "none", orderId |-> 0, newStatus |-> "",
     success |-> FALSE, error |-> "", threw |-> FALSE,
     called |-> "NONE", sent |-> "", platformType |-> "",
     rowResult |-> "NONE", rowPlatform |-> "", rowInsertOk |-> TRUE,
     syncLogId |-> 0, countBefore |-> 0, attemptsBefore |-> 0]

CallRecord(op, orderId, newStatus, r) ==
    [NoCall EXCEPT
       !.op = op, !.orderId = orderId, !.newStatus = newStatus,
       !.success = r.success, !.error = r.error, !.threw = r.threw,
       !.called = r.called, !.sent = r.sent, !.platformType = r.platformType,
       !.rowResult = IF r.rows = <<>> THEN "NONE" ELSE r.rows[1].result,
       !.rowPlatform = IF r.rows = <<>> THEN "" ELSE r.rows[1].platform_type,
       !.rowInsertOk = r.rowInsertOk]

\* ops_orders maps each id the datastore can give to the row stored under it,
\* or to NoOrder while that id is free
NoOrder ==
    [stored |-> FALSE, channel |-> "", status |-> "", external_order_id |-> "",
     integration_id |-> ""]

StoredOrders(orders) == {i \in DOMAIN orders : orders[i].stored}

\* the id the next insert gets (0: the table of the model is full)
NextOrderId(orders) ==
    LET free == DOMAIN orders \ StoredOrders(orders) IN
    IF free = {} THEN 0 ELSE CHOOSE i \in free : \A j \in free : i <= j

\* insert into ops_orders
InsertOrder(orders, row) ==
    IF NextOrderId(orders) = 0 THEN orders
    ELSE [orders EXCEPT ![NextOrderId(orders)] = row]

\* what the last pipeline run returned; no run yet
NoRun == [op |-> "none"]

\* no retailer, no queued webhook, no API key
NoRegistry ==
    /\ ops_customers = <<>>
    /\ customer_locations = <<>>
    /\ webhook_queue = <<>>
    /\ api_keys = <<>>

\* no product is mapped
NoCatalog ==
    /\ product_mappings = <<>>
    /\ warehouse_inventory = <<>>
    /\ woo_stock = <<>>

\* the import runs in flight when runs are followed await by await: where
\* each run stands and its counters; no run is in flight
Importers == {"batch", "webhook"}
NoImport ==
    [pc |-> "idle", integrationId |-> "", orders |-> <<>>, k |-> 0, logId |-> 0,
     orderId |-> 0, imported |-> 0, skipped |-> 0, failed |-> 0]

\* the retrySyncLog calls in flight when calls are followed await by await:
\* where each call stands, the row it read and the count it is about to write
Retriers == {"r1", "r2"}
NoRetry == [pc |-> "idle", syncLogId |-> 0, syncLog |-> <<>>, count |-> 0,
            success |-> FALSE, called |-> "NONE"]

InitPipelines ==
    /\ ops_order_items = <<>>
    /\ sync_logs = <<>>
    /\ lastRun = NoRun
    /\ NoCatalog
    /\ imports = [p \in Importers |-> NoImport]
    /\ NoRegistry

\* ---------------------------------------------------------------- actions
\* retryAttempts counts the calls of retrySyncLog made on the rows of
\* TrackedLogIds; it is history kept for the retry ceiling, not program state
InitSync ==
    /\ ops_orders = [o \in OrderIds |-> NoOrder]
    /\ integrations \in [IntegrationIds -> [platform_type : PlatformTypes, apiKey : BOOLEAN,
                                            sync_status : {"DISCONNECTED"}]]
    /\ outbound_logs = <<>>
    /\ retryAttempts = [i \in TrackedLogIds |-> 0]
    /\ retries = [p \in Retriers |-> NoRetry]
    /\ lastCall = NoCall
    /\ InitPipelines

\* POST /orders: inserts the request body as an order
CreateOrder(statuses, externalIds) ==
    \E c \in Channels, s \in statuses, e \in externalIds, i \in IntegrationIds :
      /\ NextOrderId(ops_orders) # 0
      /\ ops_orders' = InsertOrder(ops_orders,
            [stored |-> TRUE, channel |-> c, status |-> s, external_order_id |-> e,
             integration_id |-> i])
      /\ lastCall' = [NoCall EXCEPT !.op = "create"]
      /\ UNCHANGED <<integrations, outbound_logs, retryAttempts, retries, pipelineVars>>

\* the service entry point, called with or without a WooCommerce client;
\* limit bounds the rows of the log table
SyncStatus(statuses, limit) ==
    \E orderId \in DOMAIN ops_orders, newStatus \in statuses, wooCommerceClient \in BOOLEAN :
      \E r \in {syncStatusToExternalPlatform(ops_orders, integrations, orderId,
                                             newStatus, wooCommerceClient, env) :
                  env \in Envs} :
        /\ Len(outbound_logs) + Len(r.rows) <= limit
        /\ outbound_logs' = outbound_logs \o r.rows
        /\ lastCall' = CallRecord("sync", orderId, newStatus, r)
        /\ UNCHANGED <<ops_orders, integrations, retryAttempts, retries, pipelineVars>>

\* retrySyncLog(syncLogId, wooCommerceClient?) on a row of ids
RetrySync(ids, limit) ==
    \E syncLogId \in ids \cap (1..Len(outbound_logs)), wooCommerceClient \in BOOLEAN :
      \E x \in {retrySyncLog(outbound_logs, ops_orders, integrations, syncLogId,
                             wooCommerceClient, env) : env \in Envs} :
        LET tracked == syncLogId \in TrackedLogIds /\ ids \subseteq TrackedLogIds
            call == CallRecord("retry", outbound_logs[syncLogId].order_id,
                               outbound_logs[syncLogId].new_status, x.r)
        IN
        /\ tracked => retryAttempts[syncLogId] < MaxAttempts
        /\ Len(outbound_logs) + Len(x.t.rows) <= limit
        /\ outbound_logs' =
             [outbound_logs EXCEPT ![syncLogId] = retryUpdateRow(@, x.t)] \o x.t.rows
        /\ retryAttempts' =
             IF tracked THEN [retryAttempts EXCEPT ![syncLogId] = @ + 1]
             ELSE retryAttempts
        /\ lastCall' =
             IF tracked
               THEN [call EXCEPT !.syncLogId = syncLogId,
                                 !.countBefore = outbound_logs[syncLogId].retry_count,
                                 !.attemptsBefore = retryAttempts[syncLogId]]
               ELSE call
        /\ UNCHANGED <<ops_orders, integrations, retries, pipelineVars>>

\* the request bodies of PUT /orders/:id drawn here change one field
OrderUpdates(statuses) ==
    [field : {"channel"}, value : Channels]
      \cup [field : {"status"}, value : statuses]
      \cup [field : {"external_order_id"}, value : ExternalOrderIds]

ApplyUpdate(order, u) ==
    CASE u.field = "channel" -> [order EXCEPT !.channel = u.value]
      [] u.field = "status" -> [order EXCEPT !.status = u.value]
      [] u.field = "external_order_id" -> [order EXCEPT !.external_order_id = u.value]

\* PUT /orders/:id: writes the request body over the order, then pushes the
\* status (without a WooCommerce client) when the body carries a status
\* different from the stored one
UpdateOrder(statuses, limit) ==
    \E id \in DOMAIN ops_orders, updates \in OrderUpdates(statuses) :
      LET oldOrder == ops_orders[id]
          orders2 == [ops_orders EXCEPT ![id] = ApplyUpdate(oldOrder, updates)]
      IN
      /\ oldOrder.stored
      /\ orders2 # ops_orders
      /\ ops_orders' = orders2
      /\ IF updates.field = "status" /\ updates.value # oldOrder.status
           THEN \E r \in {syncStatusToExternalPlatform(orders2, integrations, id,
                                                       updates.value, FALSE, env) :
                            env \in Envs} :
                  /\ Len(outbound_logs) + Len(r.rows) <= limit
                  /\ outbound_logs' = outbound_logs \o r.rows
                  /\ lastCall' = CallRecord("sync", id, updates.value, r)
           ELSE /\ lastCall' = [NoCall EXCEPT !.op = "edit"]
                /\ UNCHANGED outbound_logs
      /\ UNCHANGED <<integrations, retryAttempts, retries, pipelineVars>>

\* PUT /integrations/:id: writes the request body over the integration
UpdateIntegrationRoute ==
    \E id \in IntegrationIds, p \in PlatformTypes, k \in BOOLEAN :
      /\ <<integrations[id].platform_type, integrations[id].apiKey>> # <<p, k>>
      /\ integrations' = [integrations EXCEPT ![id].platform_type = p, ![id].apiKey = k]
      /\ lastCall' = [NoCall EXCEPT !.op = "edit"]
      /\ UNCHANGED <<ops_orders, outbound_logs, retryAttempts, retries, pipelineVars>>

\* status sync, retry and edits of orders and integrations
NextSync ==
    \/ CreateOrder(CreatedStatuses, ExternalOrderIds)
    \/ SyncStatus(PushedStatuses, MaxLogs)
    \/ RetrySync(1..MaxLogs, MaxLogs)
    \/ UpdateOrder(PushedStatuses, MaxLogs)
    \/ UpdateIntegrationRoute

Spec == InitSync /\ [][NextSync]_vars

\* repeated retries of one row, with the attempts counted
NextCeiling ==
    \/ CreateOrder(CreatedStatuses, ExternalOrderIds)
    \/ SyncStatus(PushedStatuses, MaxCeilingLogs)
    \/ RetrySync(TrackedLogIds, MaxCeilingLogs)

SpecCeiling == InitSync /\ [][NextCeiling]_vars

\* the same operations with room for the row a successful retry inserts
NextSegregation ==
    \/ CreateOrder(CreatedStatuses, ExternalOrderIds)
    \/ SyncStatus(PushedStatuses, MaxSegregationLogs)
    \/ RetrySync(1..MaxSegregationLogs, MaxSegregationLogs)
    \/ UpdateOrder(PushedStatuses, MaxSegregationLogs)
    \/ UpdateIntegrationRoute

SpecSegregation == InitSync /\ [][NextSegregation]_vars

\* ------------------------------------------------ the order status routes
\* the bodies of POST /orders/bulk-update-status drawn here name no order or
\* one order
BulkOrderIds == {<<>>} \cup {<<id>> : id \in OrderIds}

\* the loop of POST /orders/bulk-update-status: one push (without a
\* WooCommerce client) for every id of the body, in the body's order
RECURSIVE bulkSyncLoop(_, _, _, _, _)
bulkSyncLoop(orders, ints, orderIds, status, envs) ==
    IF orderIds = <<>> THEN <<>>
    ELSE <<syncStatusToExternalPlatform(orders, ints, Head(orderIds), status, FALSE,
                                        Head(envs))>>
           \o bulkSyncLoop(orders, ints, Tail(orderIds), status, Tail(envs))

RECURSIVE bulkRows(_)
bulkRows(results) ==
    IF results = <<>> THEN <<>> ELSE Head(results).rows \o bulkRows(Tail(results))

\* update({ status }).in('id', orderIds)
bulkUpdate(orders, orderIds, status) ==
    [id \in DOMAIN orders |->
       IF orders[id].stored /\ \E k \in DOMAIN orderIds : orderIds[k] = id
         THEN [orders[id] EXCEPT !.status = status]
       ELSE orders[id]]

\* POST /orders/bulk-update-status: writes the status over the orders of the
\* body, then pushes it for each of them; a rejected update ends the request
BulkUpdateStatus(statuses, limit) ==
    \E orderIds \in BulkOrderIds, status \in statuses, updateError \in BOOLEAN :
      \E envs \in [DOMAIN orderIds -> Envs] :
        LET orders2 == bulkUpdate(ops_orders, orderIds, status)
            syncResults == IF updateError THEN <<>>
                           ELSE bulkSyncLoop(orders2, integrations, orderIds, status, envs)
        IN
        /\ Len(outbound_logs) + Len(bulkRows(syncResults)) <= limit
        /\ ops_orders' = IF updateError THEN ops_orders ELSE orders2
        /\ outbound_logs' = outbound_logs \o bulkRows(syncResults)
        /\ lastCall' =
             IF syncResults = <<>> THEN [NoCall EXCEPT !.op = "bulk"]
             ELSE CallRecord("bulk", orderIds[Len(orderIds)], status,
                             syncResults[Len(syncResults)])
        /\ UNCHANGED <<integrations, retryAttempts, retries, pipelineVars>>

\* POST /orders/:orderId/retry-sync/:syncLogId: answers 404 unless the row
\* belongs to the order, then retries it without a WooCommerce client
RetrySyncRoute(limit) ==
    \E orderId \in OrderIds, syncLogId \in 1..Len(outbound_logs), logError \in BOOLEAN :
      IF logError \/ outbound_logs[syncLogId].order_id # orderId
        THEN /\ lastCall' = [NoCall EXCEPT !.op = "retry", !.error = "Sync log not found"]
             /\ UNCHANGED <<ops_orders, integrations, outbound_logs, retryAttempts,
                            retries, pipelineVars>>
      ELSE \E x \in {retrySyncLog(outbound_logs, ops_orders, integrations, syncLogId,
                                  FALSE, env) : env \in Envs} :
             /\ Len(outbound_logs) + Len(x.t.rows) <= limit
             /\ outbound_logs' =
                  [outbound_logs EXCEPT ![syncLogId] = retryUpdateRow(@, x.t)] \o x.t.rows
             /\ lastCall' =
                  [CallRecord("retry", orderId, outbound_logs[syncLogId].new_status, x.r)
                     EXCEPT !.syncLogId = syncLogId,
                            !.countBefore = outbound_logs[syncLogId].retry_count]
             /\ UNCHANGED <<ops_orders, integrations, retryAttempts, retries,
                            pipelineVars>>

\* the three routes that push an order's status, on orders created by hand
NextRoutes ==
    \/ CreateOrder(CreatedStatuses, ExternalOrderIds)
    \/ UpdateOrder(PushedStatuses, MaxRouteLogs)
    \/ BulkUpdateStatus(PushedStatuses, MaxRouteLogs)
    \/ RetrySyncRoute(MaxRouteLogs)

SpecRoutes == InitSync /\ [][NextRoutes]_vars

\* every warehouse status pushed for an order that either platform accepts
InitStatus ==
    /\ ops_orders \in [OrderIds -> [stored : {TRUE}, channel : Channels,
                                    status : CreatedStatuses, external_order_id : {"17"},
                                    integration_id : IntegrationIds]]
    /\ integrations \in [IntegrationIds -> [platform_type : PlatformTypes, apiKey : {TRUE},
                                            sync_status : {"DISCONNECTED"}]]
    /\ outbound_logs = <<>>
    /\ retryAttempts = [i \in TrackedLogIds |-> 0]
    /\ retries = [p \in Retriers |-> NoRetry]
    /\ lastCall = NoCall
    /\ InitPipelines

NextStatus ==
    \/ SyncStatus(OrderStatuses, MaxStatusLogs)

SpecStatus == InitStatus /\ [][NextStatus]_vars

\* ------------------------------------------------- retries side by side
\* Two calls of retrySyncLog on one row.  A call gives way to the other at
\* its awaits; a step is what a call does from one datastore call on the row
\* to the next.  The reads of the order and of the integration and the
\* platform call are taken together: they touch nothing the other call writes.
RaceEnvs == {env \in Envs : env.fail # "logRead" /\ env.catchInsertOk}

\* retrySyncLog, first await: the row is read
ReadRetryRow(p, syncLogId) ==
    /\ retries[p].pc = "idle"
    /\ retries' = [retries EXCEPT ![p] =
                     [NoRetry EXCEPT !.pc = "call", !.syncLogId = syncLogId,
                                     !.syncLog = outbound_logs[syncLogId]]]
    /\ retryAttempts' = [retryAttempts EXCEPT ![syncLogId] = @ + 1]
    /\ UNCHANGED <<ops_orders, integrations, outbound_logs, lastCall, pipelineVars>>

\* retrySyncLog from the ceiling check to the end of the try block, on the
\* row as it was read; a success is followed by the update of the row, an
\* exception by the catch block
CallRetryPlatform(p) ==
    \E wooCommerceClient \in BOOLEAN, env \in RaceEnvs :
      LET run == retries[p]
          t == retryTry([outbound_logs EXCEPT ![run.syncLogId] = run.syncLog],
                        ops_orders, integrations, run.syncLogId, wooCommerceClient, env)
      IN
      /\ run.pc = "call"
      /\ outbound_logs' = outbound_logs \o t.rows
      /\ retries' = [retries EXCEPT ![p] =
                       IF t.thrown
                         THEN [run EXCEPT !.pc = "reread", !.called = t.called]
                         ELSE [run EXCEPT
                                 !.pc = "write", !.success = TRUE, !.called = t.called,
                                 !.count = retryCountAfterSuccess(run.syncLog.retry_count)]]
      /\ UNCHANGED <<ops_orders, integrations, retryAttempts, lastCall, pipelineVars>>

\* the catch block of retrySyncLog, first await: retry_count is read again
RereadRetryCount(p) ==
    LET run == retries[p] IN
    /\ run.pc = "reread"
    /\ retries' = [retries EXCEPT ![p] =
                     [run EXCEPT
                        !.pc = "write",
                        !.count = retryCountAfterFailure(
                                      outbound_logs[run.syncLogId].retry_count)]]
    /\ UNCHANGED <<ops_orders, integrations, outbound_logs, retryAttempts, lastCall,
                   pipelineVars>>

\* the update of the row (either path)
WriteRetryCount(p) ==
    LET run == retries[p] IN
    /\ run.pc = "write"
    /\ outbound_logs' = [outbound_logs EXCEPT ![run.syncLogId].retry_count = run.count]
    /\ retries' = [retries EXCEPT ![p].pc = "done"]
    /\ UNCHANGED <<ops_orders, integrations, retryAttempts, lastCall, pipelineVars>>

\* one ONLINE order of a WooCommerce store and the row of an earlier push of
\* its status; lastCall keeps the count the row had before the two retries
RaceCounts == {0, 1, 2}
InitRetryRace ==
    \E n \in RaceCounts, result \in {"SUCCESS", "FAILED"} :
      /\ ops_orders = [o \in OrderIds |->
                         [stored |-> TRUE, channel |-> "ONLINE", status |-> "IN_TRANSIT",
                          external_order_id |-> "17", integration_id |-> "i1"]]
      /\ integrations = [i \in IntegrationIds |->
                           [platform_type |-> "WOOCOMMERCE", apiKey |-> TRUE,
                            sync_status |-> "DISCONNECTED"]]
      /\ outbound_logs =
           <<[createSyncLog(1, "i1", "WOOCOMMERCE", "ONLINE", "SHIPPED", "IN_TRANSIT",
                            result) EXCEPT !.retry_count = n]>>
      /\ retryAttempts = [i \in TrackedLogIds |-> 0]
      /\ retries = [p \in Retriers |-> NoRetry]
      /\ lastCall = [NoCall EXCEPT !.countBefore = n]
      /\ InitPipelines

NextRetryRace ==
    \/ \E p \in Retriers, syncLogId \in TrackedLogIds : ReadRetryRow(p, syncLogId)
    \/ \E p \in Retriers : CallRetryPlatform(p)
    \/ \E p \in Retriers : RereadRetryCount(p)
    \/ \E p \in Retriers : WriteRetryCount(p)

SpecRetryRace == InitRetryRace /\ [][NextRetryRace]_vars

\* ------------------------------------------------- order import pipeline
\* the orders of the external store, and the batches a fetch can return
WooOrderIds == {1, 2, 3}
FetchedBatches == {<<2>>, <<1, 2, 3>>}
WooStatuses == {"pending", "processing", "on-hold", "completed", "cancelled",
                "refunded", "failed", "trash"}
\* the external status of the orders imported, where one is enough
ImportedWooStatuses == {"processing"}

\* statusMap is an object literal: statusMap[name] is also defined, and not a
\* status, for the names every object inherits from Object.prototype
ObjectPrototypeKeys == {"constructor", "toString", "valueOf", "hasOwnProperty", "__proto__"}
InheritedMember == "[inherited member]"

mapWooCommerceStatusToWarehouse(wooStatus) ==
    CASE wooStatus = "pending" -> "PROCESSING"
      [] wooStatus = "processing" -> "PROCESSING"
      [] wooStatus = "on-hold" -> "PROCESSING"
      [] wooStatus = "completed" -> "DELIVERED"
      [] wooStatus = "cancelled" -> "CANCELLED"
      [] wooStatus = "refunded" -> "RETURNED"
      [] wooStatus = "failed" -> "CANCELLED"
      [] wooStatus \in ObjectPrototypeKeys -> InheritedMember
      [] OTHER -> "PROCESSING"

\* an external order: its id, its status and the number of its line items
WooOrder(id, status) == [id |-> id, status |-> status, line_items |-> 1]

\* the rows of ops_orders with this external id and integration
MatchingOrders(orders, externalOrderId, integrationId) ==
    {i \in StoredOrders(orders) : /\ orders[i].integration_id = integrationId
                                  /\ orders[i].external_order_id = externalOrderId}

\* the lookup is .maybeSingle(): it returns an error when the datastore fails
\* and when more than one row matches, and on an error orderExists returns false
orderExists(orders, externalOrderId, integrationId, lookupError) ==
    LET found == MatchingOrders(orders, externalOrderId, integrationId) IN
    IF lookupError \/ Cardinality(found) > 1 THEN FALSE ELSE found # {}

\* the datastore errors one importOrder call can meet
ImportEnvs == [lookupError : BOOLEAN, insertError : BOOLEAN, itemsError : BOOLEAN]

\* variant: a refused insert of the line items takes the order back and fails
importOrderRollingBack(orders, items, wooOrder, integrationId, env) ==
    IF orderExists(orders, wooOrder.id, integrationId, env.lookupError)
      THEN [success |-> FALSE, error |-> "Order already imported",
            orders |-> orders, items |-> items, itemsFailed |-> FALSE]
    ELSE IF env.insertError
      THEN [success |-> FALSE, error |-> "Failed to create order",
            orders |-> orders, items |-> items, itemsFailed |-> FALSE]
    ELSE IF wooOrder.line_items > 0 /\ env.itemsError
      THEN [success |-> FALSE, error |-> "Failed to create order items",
            orders |-> orders, items |-> items, itemsFailed |-> TRUE]
    ELSE [success |-> TRUE, error |-> "",
          orders |-> InsertOrder(orders,
                                 [stored |-> TRUE, channel |-> "ONLINE",
                                  status |-> mapWooCommerceStatusToWarehouse(wooOrder.status),
                                  external_order_id |-> wooOrder.id,
                                  integration_id |-> integrationId]),
          items |-> Append(items, [order_id |-> NextOrderId(orders)]),
          itemsFailed |-> FALSE]

\* importOrder: the result, and the tables after it; itemsFailed tells whether
\* the insert of the line items was refused (it is logged to the console)
importOrder(orders, items, wooOrder, integrationId, env) ==
    IF orderExists(orders, wooOrder.id, integrationId, env.lookupError)
      THEN [success |-> FALSE, error |-> "Order already imported",
            orders |-> orders, items |-> items, itemsFailed |-> FALSE]
    ELSE IF env.insertError
      THEN [success |-> FALSE, error |-> "Failed to create order",
            orders |-> orders, items |-> items, itemsFailed |-> FALSE]
    ELSE LET orderData == [stored |-> TRUE, channel |-> "ONLINE",
                           status |-> mapWooCommerceStatusToWarehouse(wooOrder.status),
                           external_order_id |-> wooOrder.id,
                           integration_id |-> integrationId]
             orderId == NextOrderId(orders)
         IN
         [success |-> TRUE, error |-> "",
          orders |-> InsertOrder(orders, orderData),
          items |-> IF wooOrder.line_items > 0 /\ ~env.itemsError
                      THEN Append(items, [order_id |-> orderId])
                      ELSE items,
          itemsFailed |-> wooOrder.line_items > 0 /\ env.itemsError]

\* the environments in which the insert of the line items is accepted
ItemsAccepted == {env \in ImportEnvs : ~env.itemsError}

\* the outcomes of importOrder over the environments envs
importOrderOutcomes(orders, items, wooOrder, integrationId, envs) ==
    {importOrder(orders, items, wooOrder, integrationId, env) : env \in envs}

\* result.error?.includes('already imported')
includesAlreadyImported(error) == error = "Order already imported"

\* the counters of importOrdersFromWooCommerce before its loop; existingImported
\* and existingFailed count the fetched orders that were stored when their turn
\* came and were counted as imported or as failed
NoResults(orders, items) ==
    [orders |-> orders, items |-> items, imported |-> 0, skipped |-> 0, failed |-> 0,
     errors |-> <<>>, existingImported |-> 0, existingFailed |-> 0, itemsFailed |-> <<>>]

\* `Order ${wooOrder.id}: ${result.error}`
ImportError(externalOrderId, error) == <<"Order", externalOrderId, error>>

\* variant: a failure is counted and leaves no error string
countImportWithoutError(st, wooOrder, result, existed) ==
    IF result.success
      THEN [st EXCEPT !.orders = result.orders, !.items = result.items,
                      !.imported = @ + 1,
                      !.itemsFailed = IF result.itemsFailed THEN Append(@, wooOrder.id) ELSE @,
                      !.existingImported = IF existed THEN @ + 1 ELSE @]
    ELSE IF includesAlreadyImported(result.error)
      THEN [st EXCEPT !.skipped = @ + 1]
    ELSE [st EXCEPT !.failed = @ + 1,
                    !.existingFailed = IF existed THEN @ + 1 ELSE @]

\* one turn of the loop: count the result of importOrder
countImport(st, wooOrder, result, existed) ==
    IF result.success
      THEN [st EXCEPT !.orders = result.orders, !.items = result.items,
                      !.imported = @ + 1,
                      !.itemsFailed = IF result.itemsFailed THEN Append(@, wooOrder.id) ELSE @,
                      !.existingImported = IF existed THEN @ + 1 ELSE @]
    ELSE IF includesAlreadyImported(result.error)
      THEN [st EXCEPT !.skipped = @ + 1]
    ELSE [st EXCEPT !.failed = @ + 1,
                    !.errors = Append(@, ImportError(wooOrder.id, result.error)),
                    !.existingFailed = IF existed THEN @ + 1 ELSE @]

\* the loop over the fetched orders from position k on: every way it can end
RECURSIVE importLoop(_, _, _, _, _)
importLoop(st, batch, integrationId, k, envs) ==
    IF k > Len(batch) THEN {st}
    ELSE LET wooOrder == batch[k]
             existed == MatchingOrders(st.orders, wooOrder.id, integrationId) # {}
         IN
         UNION {importLoop(countImport(st, wooOrder, result, existed), batch, integrationId, k + 1, envs) :
                  result \in importOrderOutcomes(st.orders, st.items, wooOrder, integrationId, envs)}

\* IntegrationService.createSyncLog: the row a pipeline opens
RunningLog(integrationId, syncType) ==
    [integration_id |-> integrationId, sync_type |-> syncType, status |-> "RUNNING",
     records_processed |-> 0, records_failed |-> 0]

\* IntegrationService.updateIntegration once the datastore accepts it: the
\* columns named in updates are written, the others stay.  The request body is
\* JSON, which has no undefined: a key given as undefined is not in updates.
\* (The columns a specification leaves out of its rows are not written.)
updateIntegration(ints, id, updates) ==
    [ints EXCEPT ![id] = [column \in DOMAIN @ |->
                            IF column \in DOMAIN updates THEN updates[column]
                            ELSE @[column]]]

\* the update a batch run makes before it returns:
\*   { last_sync_at: now, sync_status: 'CONNECTED', error_message: undefined }
markConnected(ints, integrationId) ==
    updateIntegration(ints, integrationId,
                      [last_sync_at |-> "now", sync_status |-> "CONNECTED"])

\* the update of the catch block of a batch run; the message is that of the
\* call that failed
markError(ints, integrationId, message) ==
    updateIntegration(ints, integrationId,
                      [sync_status |-> "ERROR", error_message |-> message])

\* the status a batch run closes its log with; done counts the records
\* imported (resp. synced)
closingStatus(failed, done) ==
    IF failed = 0 THEN "SUCCESS" ELSE IF done > 0 THEN "PARTIAL" ELSE "FAILED"

\* the first call of a batch run that the datastore or the platform fails, and
\* whether the two updates of its catch block are accepted
BatchFailurePoints ==
    {"none", "getIntegration", "createSyncLog", "fetch", "closeLog", "updateIntegration"}
BatchEnvs == [fail : BatchFailurePoints, catchLogOk : BOOLEAN, catchIntegrationOk : BOOLEAN]

\* what a run of importOrdersFromWooCommerce did and left behind
importRun(threw, loopCompleted, logId, st, total, logs, ints) ==
    [threw |-> threw, loopCompleted |-> loopCompleted, logId |-> logId,
     total |-> total, imported |-> st.imported, skipped |-> st.skipped,
     failed |-> st.failed, errors |-> st.errors,
     existingImported |-> st.existingImported,
     existingFailed |-> st.existingFailed, itemsFailed |-> st.itemsFailed,
     orders |-> st.orders, items |-> st.items, logs |-> logs, ints |-> ints]

\* the catch block of importOrdersFromWooCommerce: close the log as FAILED,
\* mark the integration ERROR, rethrow; a rejected update throws in its turn
importCatch(loopCompleted, logId, st, total, logs, ints, integrationId, env) ==
    importRun(TRUE, loopCompleted, logId, st, total,
              IF env.catchLogOk THEN [logs EXCEPT ![logId].status = "FAILED"] ELSE logs,
              IF env.catchLogOk /\ env.catchIntegrationOk
                THEN markError(ints, integrationId, env.fail)
                ELSE ints)

\* after the loop: close the log, mark the integration CONNECTED, return
importClose(st, total, logs, ints, logId, integrationId, env) ==
    LET closed == [logs EXCEPT
                     ![logId].status = closingStatus(st.failed, st.imported),
                     ![logId].records_processed = st.imported + st.skipped,
                     ![logId].records_failed = st.failed]
    IN
    IF env.fail = "closeLog"
      THEN importCatch(TRUE, logId, st, total, logs, ints, integrationId, env)
    ELSE IF env.fail = "updateIntegration"
      THEN importCatch(TRUE, logId, st, total, closed, ints, integrationId, env)
    ELSE importRun(FALSE, TRUE, logId, st, total, closed,
                   markConnected(ints, integrationId))

\* importOrdersFromWooCommerce in environment env; loopEnd is the state in
\* which its loop ends when the run gets that far (one of importLoop)
importOrdersFromWooCommerce(orders, items, logs, ints, integrationId, batch, env, loopEnd) ==
    LET start == NoResults(orders, items)
        logId == Len(logs) + 1
        opened == Append(logs, RunningLog(integrationId, "ORDER_IMPORT"))
    IN
    IF env.fail = "getIntegration" \/ integrationId \notin DOMAIN ints
      THEN importRun(TRUE, FALSE, 0, start, 0, logs, ints)
    ELSE IF ints[integrationId].platform_type # "WOOCOMMERCE"
      THEN importRun(TRUE, FALSE, 0, start, 0, logs, ints)
    ELSE IF env.fail = "createSyncLog"
      THEN importRun(TRUE, FALSE, 0, start, 0, logs, ints)
    ELSE IF env.fail = "fetch"
      THEN importCatch(FALSE, logId, start, 0, opened, ints, integrationId, env)
    ELSE importClose(loopEnd, Len(batch), opened, ints, logId, integrationId, env)

WebhookEnvs == [fail : {"none", "createSyncLog", "closeLog"}, catchLogOk : BOOLEAN]

\* what a run of processWebhookOrder did and left behind
webhookRun(threw, ran, logId, result, logs) ==
    [threw |-> threw, ran |-> ran, logId |-> logId, success |-> result.success,
     error |-> result.error, orders |-> result.orders, items |-> result.items,
     itemsFailed |-> result.itemsFailed, logs |-> logs]

\* processWebhookOrder in environment env; result is what its importOrder
\* call returns when the run gets that far (one of importOrderOutcomes)
processWebhookOrder(orders, items, logs, integrationId, wooOrder, env, result) ==
    LET logId == Len(logs) + 1
        opened == Append(logs, RunningLog(integrationId, "WEBHOOK"))
        notRun == [success |-> FALSE, error |-> "", orders |-> orders, items |-> items,
                   itemsFailed |-> FALSE]
    IN
    IF env.fail = "createSyncLog" THEN webhookRun(TRUE, FALSE, 0, notRun, logs)
    ELSE IF env.fail = "closeLog"
      THEN webhookRun(TRUE, TRUE, logId, result,
                      IF env.catchLogOk
                        THEN [opened EXCEPT ![logId].status = "FAILED",
                                            ![logId].records_failed = 1]
                        ELSE opened)
    ELSE webhookRun(FALSE, TRUE, logId, result,
                    [opened EXCEPT
                       ![logId].status = IF result.success THEN "SUCCESS" ELSE "FAILED",
                       ![logId].records_processed = IF result.success THEN 1 ELSE 0,
                       ![logId].records_failed = IF result.success THEN 0 ELSE 1])

\* the state the import and export pipelines leave alone
statusSyncVars == <<outbound_logs, retryAttempts, retries, lastCall, registryVars>>

InitImport ==
    /\ ops_orders = [o \in ImportOrderIds |-> NoOrder]
    /\ integrations \in [IntegrationIds -> [platform_type : PlatformTypes, apiKey : {TRUE},
                                            sync_status : {"DISCONNECTED"}]]
    /\ outbound_logs = <<>>
    /\ retryAttempts = [i \in TrackedLogIds |-> 0]
    /\ retries = [p \in Retriers |-> NoRetry]
    /\ lastCall = NoCall
    /\ InitPipelines

\* POST /integrations/:id/import-orders; envs are the datastore errors the
\* importOrder calls of the run can meet, limit bounds the rows of the log
\* table; a run is followed while ops_orders has a free id for each insert
ImportOrders(envs, limit) ==
    \E integrationId \in IntegrationIds, ids \in FetchedBatches, status \in ImportedWooStatuses :
      LET batch == [k \in 1..Len(ids) |-> WooOrder(ids[k], status)]
          start == NoResults(ops_orders, ops_order_items)
          runOf(env, loopEnd) ==
              importOrdersFromWooCommerce(ops_orders, ops_order_items, sync_logs,
                                          integrations, integrationId, batch, env, loopEnd)
          \* the loop is followed for the runs that get to it
          runsOf(env) ==
              IF ~runOf(env, start).loopCompleted THEN {runOf(env, start)}
              ELSE IF Len(runOf(env, start).logs) > limit THEN {}
              ELSE {runOf(env, loopEnd) :
                      loopEnd \in importLoop(start, batch, integrationId, 1, envs)}
      IN
      \E run \in UNION {runsOf(env) : env \in BatchEnvs} :
        /\ Cardinality(StoredOrders(run.orders)) =
             Cardinality(StoredOrders(ops_orders)) + run.imported
        /\ Len(run.logs) <= limit
        /\ ops_orders' = run.orders
        /\ ops_order_items' = run.items
        /\ sync_logs' = run.logs
        /\ integrations' = run.ints
        /\ lastRun' = [op |-> "import", integrationId |-> integrationId,
                       threw |-> run.threw, loopCompleted |-> run.loopCompleted,
                       logId |-> run.logId, total |-> run.total,
                       imported |-> run.imported, skipped |-> run.skipped,
                       failed |-> run.failed, errors |-> run.errors, batch |-> ids,
                       existingImported |-> run.existingImported,
                       existingFailed |-> run.existingFailed,
                       itemsFailed |-> run.itemsFailed]
        /\ UNCHANGED <<statusSyncVars, exportVars, imports>>

\* POST /webhooks/woocommerce/:integrationId with an order topic
WebhookOrder(envs, limit) ==
    \E integrationId \in IntegrationIds, id \in WooOrderIds, status \in ImportedWooStatuses :
      \E result \in importOrderOutcomes(ops_orders, ops_order_items, WooOrder(id, status),
                                        integrationId, envs) :
      \E run \in {processWebhookOrder(ops_orders, ops_order_items, sync_logs,
                                      integrationId, WooOrder(id, status), env, result) :
                    env \in WebhookEnvs} :
        /\ Cardinality(StoredOrders(run.orders)) =
             Cardinality(StoredOrders(ops_orders)) + (IF run.success THEN 1 ELSE 0)
        /\ Len(run.logs) <= limit
        /\ ops_orders' = run.orders
        /\ ops_order_items' = run.items
        /\ sync_logs' = run.logs
        /\ lastRun' = [op |-> "webhook", integrationId |-> integrationId,
                       externalOrderId |-> id,
                       threw |-> run.threw, ran |-> run.ran, logId |-> run.logId,
                       success |-> run.success, error |-> run.error,
                       existed |-> MatchingOrders(ops_orders, id, integrationId) # {},
                       ordersInserted |-> Cardinality(StoredOrders(run.orders))
                                            - Cardinality(StoredOrders(ops_orders)),
                       itemsInserted |-> Len(run.items) - Len(ops_order_items),
                       itemsFailed |-> run.itemsFailed]
        /\ UNCHANGED <<integrations, statusSyncVars, exportVars, imports>>

NextImport ==
    \/ ImportOrders(ItemsAccepted, MaxSyncLogs)
    \/ WebhookOrder(ItemsAccepted, MaxSyncLogs)

SpecImport == InitImport /\ [][NextImport]_vars

\* imports whose insert of the line items can be refused, on a WooCommerce
\* integration
InitItems ==
    /\ ops_orders = [o \in ImportOrderIds |-> NoOrder]
    /\ integrations \in [IntegrationIds -> [platform_type : {"WOOCOMMERCE"}, apiKey : {TRUE},
                                            sync_status : {"DISCONNECTED"}]]
    /\ outbound_logs = <<>>
    /\ retryAttempts = [i \in TrackedLogIds |-> 0]
    /\ retries = [p \in Retriers |-> NoRetry]
    /\ lastCall = NoCall
    /\ InitPipelines

\* the environments in which the existence check is answered
LookupAnswered == {env \in ImportEnvs : ~env.lookupError}

NextItems ==
    \/ ImportOrders(LookupAnswered, MaxItemRuns)
    \/ WebhookOrder(LookupAnswered, MaxItemRuns)

SpecItems == InitItems /\ [][NextItems]_vars

\* ------------------------------------------------- imports side by side
\* Two import runs of one server: a batch import and a webhook delivery.  A
\* run gives way to the other at its awaits; a step is what a run does from
\* one datastore call of importOrder to the next.  The calls on the rows only
\* the run itself writes (its log row) are taken together with the
\* neighbouring step.  The datastore answers every call here, except that it
\* may refuse the insert of an order.
ConcurrentOrderIds == {1, 2, 3, 4}

\* the run goes on to its next order, or to closing its log
nextOrder(run) ==
    IF run.k < Len(run.orders) THEN [run EXCEPT !.k = @ + 1, !.pc = "check"]
    ELSE [run EXCEPT !.pc = "close"]

\* importOrdersFromWooCommerce up to its loop: the log row is opened and the
\* orders are fetched
BeginBatchImport ==
    \E integrationId \in IntegrationIds, ids \in FetchedBatches :
      /\ imports["batch"].pc = "idle"
      /\ integrations[integrationId].platform_type = "WOOCOMMERCE"
      /\ sync_logs' = Append(sync_logs, RunningLog(integrationId, "ORDER_IMPORT"))
      /\ imports' = [imports EXCEPT !["batch"] =
                       [NoImport EXCEPT !.pc = "check", !.integrationId = integrationId,
                                        !.orders = ids, !.k = 1,
                                        !.logId = Len(sync_logs) + 1]]
      /\ UNCHANGED <<ops_orders, ops_order_items, integrations, lastRun, statusSyncVars,
                     exportVars>>

\* processWebhookOrder up to its importOrder call: the log row is opened
BeginWebhookImport ==
    \E integrationId \in IntegrationIds, id \in WooOrderIds :
      /\ imports["webhook"].pc = "idle"
      /\ sync_logs' = Append(sync_logs, RunningLog(integrationId, "WEBHOOK"))
      /\ imports' = [imports EXCEPT !["webhook"] =
                       [NoImport EXCEPT !.pc = "check", !.integrationId = integrationId,
                                        !.orders = <<id>>, !.k = 1,
                                        !.logId = Len(sync_logs) + 1]]
      /\ UNCHANGED <<ops_orders, ops_order_items, integrations, lastRun, statusSyncVars,
                     exportVars>>

\* importOrder, first await: orderExists; an order found is counted as skipped
CheckExists(p, lookupErrors) ==
    \E lookupError \in lookupErrors :
      LET run == imports[p]
          exists == orderExists(ops_orders, run.orders[run.k], run.integrationId,
                                lookupError)
      IN
      /\ run.pc = "check"
      /\ imports' = [imports EXCEPT ![p] =
                       IF exists THEN nextOrder([run EXCEPT !.skipped = @ + 1])
                       ELSE [run EXCEPT !.pc = "insert"]]
      /\ UNCHANGED <<ops_orders, ops_order_items, sync_logs, integrations, lastRun,
                     statusSyncVars, exportVars>>

\* importOrder, second await: the insert into ops_orders
InsertOrderRow(p) ==
    \E insertError \in BOOLEAN, status \in ImportedWooStatuses :
      LET run == imports[p]
          orderData == [stored |-> TRUE, channel |-> "ONLINE",
                        status |-> mapWooCommerceStatusToWarehouse(status),
                        external_order_id |-> run.orders[run.k],
                        integration_id |-> run.integrationId]
      IN
      /\ run.pc = "insert"
      /\ NextOrderId(ops_orders) # 0
      /\ IF insertError
           THEN /\ imports' = [imports EXCEPT ![p] = nextOrder([run EXCEPT !.failed = @ + 1])]
                /\ UNCHANGED ops_orders
           ELSE /\ ops_orders' = InsertOrder(ops_orders, orderData)
                /\ imports' = [imports EXCEPT ![p] =
                                 [run EXCEPT !.pc = "items",
                                             !.orderId = NextOrderId(ops_orders)]]
      /\ UNCHANGED <<ops_order_items, sync_logs, integrations, lastRun, statusSyncVars,
                     exportVars>>

\* importOrder, third await: the insert of the line items; the order is
\* counted as imported
InsertOrderItems(p) ==
    LET run == imports[p] IN
    /\ run.pc = "items"
    /\ ops_order_items' = Append(ops_order_items, [order_id |-> run.orderId])
    /\ imports' = [imports EXCEPT ![p] = nextOrder([run EXCEPT !.imported = @ + 1])]
    /\ UNCHANGED <<ops_orders, sync_logs, integrations, lastRun, statusSyncVars,
                   exportVars>>

\* after the loop of the batch import (resp. the importOrder call of the
\* webhook): the log row is closed, the batch marks the integration CONNECTED
CloseImport(p) ==
    LET run == imports[p] IN
    /\ run.pc = "close"
    /\ sync_logs' =
         IF p = "batch"
           THEN [sync_logs EXCEPT
                   ![run.logId].status = closingStatus(run.failed, run.imported),
                   ![run.logId].records_processed = run.imported + run.skipped,
                   ![run.logId].records_failed = run.failed]
           ELSE [sync_logs EXCEPT
                   ![run.logId].status = IF run.imported = 1 THEN "SUCCESS" ELSE "FAILED",
                   ![run.logId].records_processed = IF run.imported = 1 THEN 1 ELSE 0,
                   ![run.logId].records_failed = IF run.imported = 1 THEN 0 ELSE 1]
    /\ integrations' =
         IF p = "batch"
           THEN [integrations EXCEPT ![run.integrationId].sync_status = "CONNECTED"]
           ELSE integrations
    /\ imports' = [imports EXCEPT ![p].pc = "done"]
    /\ UNCHANGED <<ops_orders, ops_order_items, lastRun, statusSyncVars, exportVars>>

InitConcurrent ==
    /\ ops_orders = [o \in ConcurrentOrderIds |-> NoOrder]
    /\ integrations \in [IntegrationIds -> [platform_type : PlatformTypes, apiKey : {TRUE},
                                            sync_status : {"DISCONNECTED"}]]
    /\ outbound_logs = <<>>
    /\ retryAttempts = [i \in TrackedLogIds |-> 0]
    /\ retries = [p \in Retriers |-> NoRetry]
    /\ lastCall = NoCall
    /\ InitPipelines

NextConcurrent ==
    \/ BeginBatchImport
    \/ BeginWebhookImport
    \/ \E p \in Importers : CheckExists(p, {FALSE})
    \/ \E p \in Importers : InsertOrderRow(p)
    \/ \E p \in Importers : InsertOrderItems(p)
    \/ \E p \in Importers : CloseImport(p)

SpecConcurrent == InitConcurrent /\ [][NextConcurrent]_vars

\* ---------------------------------------------- inventory export pipeline
ProductIds == {"p1", "p2"}
ProductTypes == {"CIGAR", "BUNDLE", "ACCESSORY"}
\* the stock a warehouse row can hold
Quantities == {0, 5}

\* a row of product_mappings; last_synced tells whether last_synced_at is set
ProductMapping(integrationId, productId, productType, variationId, externalId, externalVariationId, syncInventory) ==
    [integration_id |-> integrationId, warehouse_product_id |-> productId,
     warehouse_product_type |-> productType, warehouse_variation_id |-> variationId,
     external_product_id |-> externalId, external_variation_id |-> externalVariationId,
     sku |-> "", sync_inventory |-> syncInventory, last_synced |-> FALSE]

\* the mapping tables: a bundle mapped to a simple product, and a cigar, with
\* or without its warehouse variation, mapped to a variation of a product
MappingTables ==
    {<<ProductMapping(i, "p1", "BUNDLE", "", "11", "", s1),
       ProductMapping(i, "p2", "CIGAR", v, "12", "120", s2)>> :
         i \in IntegrationIds, s1 \in BOOLEAN, s2 \in BOOLEAN, v \in {"", "v1"}}

\* the warehouse row of a product (inventory_cigars, bundles or accessories,
\* as the type of the product says): missing, or holding a quantity
NoInventory == [stored |-> FALSE, available |-> 0]
InventoryRows == {NoInventory} \cup {[stored |-> TRUE, available |-> q] : q \in Quantities}

\* parseInt on the external ids of the mapping tables
parseInt(s) ==
    CASE s = "11" -> 11
      [] s = "12" -> 12
      [] s = "120" -> 120

\* the shop entry a mapping points to; variation 0: the product itself
ShopTarget(mapping) ==
    <<parseInt(mapping.external_product_id),
      IF mapping.external_variation_id # "" THEN parseInt(mapping.external_variation_id) ELSE 0>>

\* what the shop shows for an entry before any push, and after a push
\* (WooCommerceClient.updateProductVariationStock, batchUpdateProducts)
Unmanaged == [manage_stock |-> FALSE, stock_quantity |-> 0, stock_status |-> "instock"]
\* variant: a sold-out entry is pushed as in stock
PushedStockFromZero(stockQuantity) ==
    [manage_stock |-> TRUE, stock_quantity |-> stockQuantity,
     stock_status |-> IF stockQuantity >= 0 THEN "instock" ELSE "outofstock"]

PushedStock(stockQuantity) ==
    [manage_stock |-> TRUE, stock_quantity |-> stockQuantity,
     stock_status |-> IF stockQuantity > 0 THEN "instock" ELSE "outofstock"]

\* number | null
Null == [isNull |-> TRUE, value |-> 0]
Number(n) == [isNull |-> FALSE, value |-> n]

\* getWarehouseInventory: null on a lookup error, on an unknown product type
\* and for a cigar without variation; a missing row reads as 0
getWarehouseInventory(inv, productId, productType, variationId, lookupError) ==
    LET read == IF lookupError THEN Null
                ELSE Number(IF inv[productId].stored THEN inv[productId].available ELSE 0)
    IN
    IF productType = "CIGAR" /\ variationId # "" THEN read
    ELSE IF productType = "BUNDLE" THEN read
    ELSE IF productType = "ACCESSORY" THEN read
    ELSE Null

\* the entries of results.errors
ExportError(kind, productId, mappingId) ==
    [kind |-> kind, product |-> productId, mapping |-> mappingId]

\* variant: the inventory-sync toggle is not looked at
exportScopeIgnoringToggle(mappings, integrationId, warehouseProductIds) ==
    SelectSeq([k \in 1..Len(mappings) |-> k],
              LAMBDA k : /\ mappings[k].integration_id = integrationId
                         /\ (warehouseProductIds # {} =>
                               mappings[k].warehouse_product_id \in warehouseProductIds))

\* the mappings a run works on, as positions of the table, in table order
exportScope(mappings, integrationId, warehouseProductIds) ==
    SelectSeq([k \in 1..Len(mappings) |-> k],
              LAMBDA k : /\ mappings[k].integration_id = integrationId
                         /\ mappings[k].sync_inventory
                         /\ (warehouseProductIds # {} =>
                               mappings[k].warehouse_product_id \in warehouseProductIds))

\* the errors one turn of the export loop can meet
MappingEnvs == [lookupError : BOOLEAN, pushError : BOOLEAN]

\* the calls a run makes on the shop, in the order it makes them
VariationCall(target) ==
    [call |-> "updateProductVariationStock", target |-> target, ids |-> <<>>]
BatchCall(updates) ==
    [call |-> "batchUpdateProducts", target |-> <<0, 0>>,
     ids |-> [j \in 1..Len(updates) |-> updates[j].id]]

\* results, updates and the tables before the loop; pushed holds the shop
\* entries that took a value during the run
NoExportResults(mappings, stock) ==
    [mappings |-> mappings, stock |-> stock, synced |-> 0, skipped |-> 0, failed |-> 0,
     errors |-> <<>>, updates |-> <<>>, pushed |-> {}, calls |-> <<>>]

\* the body of the export loop for the mapping at position k
exportMapping(st, k, inv, env) ==
    LET mapping == st.mappings[k]
        inventory == getWarehouseInventory(inv, mapping.warehouse_product_id,
                                           mapping.warehouse_product_type,
                                           mapping.warehouse_variation_id, env.lookupError)
        target == ShopTarget(mapping)
        touched == [st.mappings EXCEPT ![k].last_synced = TRUE]
    IN
    IF inventory.isNull
      THEN [st EXCEPT !.skipped = @ + 1,
                      !.errors = Append(@, ExportError("not found in warehouse",
                                                       mapping.warehouse_product_id, 0))]
    ELSE IF target[2] # 0
      THEN IF env.pushError
             THEN [st EXCEPT !.failed = @ + 1,
                             !.calls = Append(@, VariationCall(target)),
                             !.errors = Append(@, ExportError("Mapping", "", k))]
             ELSE [st EXCEPT !.stock = [@ EXCEPT ![target] = PushedStock(inventory.value)],
                             !.pushed = @ \cup {target},
                             !.calls = Append(@, VariationCall(target)),
                             !.mappings = touched, !.synced = @ + 1]
    ELSE [st EXCEPT !.updates = Append(@, [id |-> target[1],
                                           stock_quantity |-> inventory.value]),
                    !.mappings = touched, !.synced = @ + 1]

\* the outcomes of one turn of the loop over the environments envs
exportMappingOutcomes(st, k, inv, envs) == {exportMapping(st, k, inv, env) : env \in envs}

\* the loop over the mappings of scope from position n on: every way it can end
RECURSIVE exportLoop(_, _, _, _, _)
exportLoop(st, scope, n, inv, envs) ==
    IF n > Len(scope) THEN {st}
    ELSE UNION {exportLoop(next, scope, n + 1, inv, envs) :
                  next \in exportMappingOutcomes(st, scope[n], inv, envs)}

\* variant: the batch update is sent even when no simple product was resolved
exportBatchAlways(st, batchError) ==
    IF batchError
      THEN [st EXCEPT !.errors = Append(@, ExportError("Batch update failed", "", 0)),
                      !.calls = Append(@, BatchCall(st.updates))]
    ELSE [st EXCEPT !.pushed = @ \cup {<<st.updates[j].id, 0>> : j \in 1..Len(st.updates)},
                    !.calls = Append(@, BatchCall(st.updates))]

\* batchUpdateProducts in its own try block: a failure adds an error only
exportBatch(st, batchError) ==
    LET last(t) == CHOOSE j \in 1..Len(st.updates) :
                     /\ st.updates[j].id = t[1]
                     /\ \A l \in 1..Len(st.updates) : st.updates[l].id = t[1] => l <= j
        sent == {<<st.updates[j].id, 0>> : j \in 1..Len(st.updates)}
    IN
    IF st.updates = <<>> THEN st
    ELSE IF batchError
      THEN [st EXCEPT !.errors = Append(@, ExportError("Batch update failed", "", 0)),
                      !.calls = Append(@, BatchCall(st.updates))]
    ELSE [st EXCEPT !.pushed = @ \cup sent,
                    !.calls = Append(@, BatchCall(st.updates)),
                    !.stock = [t \in DOMAIN @ |->
                                 IF t \in sent
                                   THEN PushedStock(st.updates[last(t)].stock_quantity)
                                   ELSE @[t]]]

\* the status an export run closes its log with
exportClosingStatus(failed, synced) ==
    IF failed = 0 THEN "SUCCESS" ELSE IF synced > 0 THEN "PARTIAL" ELSE "FAILED"

\* the first call of an export run that the datastore fails, whether the batch
\* update is refused, and whether the two updates of the catch block are
\* accepted
ExportFailurePoints ==
    {"none", "getIntegration", "createSyncLog", "getProductMappings", "closeLog",
     "updateIntegration"}
ExportEnvs == [fail : ExportFailurePoints, batchError : BOOLEAN, catchLogOk : BOOLEAN, catchIntegrationOk : BOOLEAN]

\* what a run of syncInventoryToWooCommerce did and left behind
exportRun(threw, loopCompleted, logId, st, total, logs, ints) ==
    [threw |-> threw, loopCompleted |-> loopCompleted, logId |-> logId,
     total |-> total, synced |-> st.synced, skipped |-> st.skipped,
     failed |-> st.failed, errors |-> st.errors, pushed |-> st.pushed,
     calls |-> st.calls, mappings |-> st.mappings, stock |-> st.stock, logs |-> logs, ints |-> ints]

\* the catch block of syncInventoryToWooCommerce: close the log as FAILED,
\* mark the integration ERROR, rethrow; a rejected update throws in its turn
exportCatch(loopCompleted, logId, st, total, logs, ints, integrationId, env) ==
    exportRun(TRUE, loopCompleted, logId, st, total,
              IF env.catchLogOk THEN [logs EXCEPT ![logId].status = "FAILED"] ELSE logs,
              IF env.catchLogOk /\ env.catchIntegrationOk
                THEN markError(ints, integrationId, env.fail)
                ELSE ints)

\* after the loop and the batch update: close the log, mark the integration
\* CONNECTED, return
exportClose(st, total, logs, ints, logId, integrationId, env) ==
    LET closed == [logs EXCEPT
                     ![logId].status = exportClosingStatus(st.failed, st.synced),
                     ![logId].records_processed = st.synced + st.skipped,
                     ![logId].records_failed = st.failed]
    IN
    IF env.fail = "closeLog"
      THEN exportCatch(TRUE, logId, st, total, logs, ints, integrationId, env)
    ELSE IF env.fail = "updateIntegration"
      THEN exportCatch(TRUE, logId, st, total, closed, ints, integrationId, env)
    ELSE exportRun(FALSE, TRUE, logId, st, total, closed,
                   markConnected(ints, integrationId))

\* syncInventoryToWooCommerce in environment env; scope are the mappings it
\* works on and loopEnd the state in which its loop ends when the run gets
\* that far (one of exportLoop)
syncInventoryToWooCommerce(mappings, stock, logs, ints, integrationId, scope, env, loopEnd) ==
    LET start == NoExportResults(mappings, stock)
        logId == Len(logs) + 1
        opened == Append(logs, RunningLog(integrationId, "INVENTORY_EXPORT"))
    IN
    IF env.fail = "getIntegration" \/ integrationId \notin DOMAIN ints
      THEN exportRun(TRUE, FALSE, 0, start, 0, logs, ints)
    ELSE IF ints[integrationId].platform_type # "WOOCOMMERCE"
      THEN exportRun(TRUE, FALSE, 0, start, 0, logs, ints)
    ELSE IF env.fail = "createSyncLog"
      THEN exportRun(TRUE, FALSE, 0, start, 0, logs, ints)
    ELSE IF env.fail = "getProductMappings"
      THEN exportCatch(FALSE, logId, start, 0, opened, ints, integrationId, env)
    ELSE exportClose(exportBatch(loopEnd, env.batchError), Len(scope), opened, ints,
                     logId, integrationId, env)

\* the warehouseProductIds option of a run: none, or one product
ProductFilters == {{}, {"p1"}}

\* POST /integrations/:id/sync-inventory; filters are the values of the
\* warehouseProductIds option, envs the errors a turn of the loop can meet,
\* limit bounds the rows of the log table
ExportInventory(filters, envs, limit) ==
    \E integrationId \in IntegrationIds, warehouseProductIds \in filters :
      LET scope == exportScope(product_mappings, integrationId, warehouseProductIds)
          start == NoExportResults(product_mappings, woo_stock)
          runOf(env, loopEnd) ==
              syncInventoryToWooCommerce(product_mappings, woo_stock, sync_logs,
                                         integrations, integrationId, scope, env, loopEnd)
          \* the loop is followed for the runs that get to it
          runsOf(env) ==
              IF ~runOf(env, start).loopCompleted THEN {runOf(env, start)}
              ELSE IF Len(runOf(env, start).logs) > limit THEN {}
              ELSE {runOf(env, loopEnd) :
                      loopEnd \in exportLoop(start, scope, 1, warehouse_inventory, envs)}
      IN
      \E run \in UNION {runsOf(env) : env \in ExportEnvs} :
        /\ Len(run.logs) <= limit
        /\ product_mappings' = run.mappings
        /\ woo_stock' = run.stock
        /\ sync_logs' = run.logs
        /\ integrations' = run.ints
        /\ lastRun' = [op |-> "export", integrationId |-> integrationId,
                       threw |-> run.threw, loopCompleted |-> run.loopCompleted,
                       logId |-> run.logId, scope |-> scope, total |-> run.total,
                       synced |-> run.synced, skipped |-> run.skipped,
                       failed |-> run.failed, errors |-> run.errors,
                       pushed |-> run.pushed, calls |-> run.calls,
                       filter |-> warehouseProductIds]
        /\ UNCHANGED <<ops_orders, ops_order_items, warehouse_inventory, statusSyncVars,
                       imports>>

\* the catalog of an export: a mapping table, the warehouse rows of its
\* products and the shop entries it points to
InitCatalog(tables, rows) ==
    /\ product_mappings \in tables
    /\ warehouse_inventory \in [ProductIds -> rows]
    /\ woo_stock = [t \in {ShopTarget(product_mappings[k]) : k \in 1..Len(product_mappings)}
                      |-> Unmanaged]

\* no order, no log row, and a catalog out of tables
InitBatch(tables) ==
    /\ ops_orders = [o \in ImportOrderIds |-> NoOrder]
    /\ integrations \in [IntegrationIds -> [platform_type : PlatformTypes, apiKey : {TRUE},
                                            sync_status : {"DISCONNECTED"}]]
    /\ outbound_logs = <<>>
    /\ retryAttempts = [i \in TrackedLogIds |-> 0]
    /\ retries = [p \in Retriers |-> NoRetry]
    /\ lastCall = NoCall
    /\ ops_order_items = <<>>
    /\ sync_logs = <<>>
    /\ lastRun = NoRun
    /\ imports = [p \in Importers |-> NoImport]
    /\ NoRegistry
    /\ InitCatalog(tables, InventoryRows)

InitExport == InitBatch(MappingTables)

NextExport == ExportInventory(ProductFilters, MappingEnvs, MaxRunLogs)

SpecExport == InitExport /\ [][NextExport]_vars

\* the two batch pipelines side by side
NextClose ==
    \/ ImportOrders(ItemsAccepted, MaxRunLogs)
    \/ ExportInventory(ProductFilters, MappingEnvs, MaxRunLogs)

\* the tables in which every mapping has its inventory sync enabled
EnabledTables ==
    {t \in MappingTables : \A k \in 1..Len(t) : t[k].sync_inventory}

InitClose == InitBatch(EnabledTables)

SpecClose == InitClose /\ [][NextClose]_vars

\* batch runs one after the other on a WooCommerce integration whose cigar is
\* mapped with its variation and whose products are in stock
MaxBatchRuns == 1

VariationTables == {t \in EnabledTables : t[2].warehouse_variation_id = "v1"}

InitIsolation ==
    /\ ops_orders = [o \in ImportOrderIds |-> NoOrder]
    /\ integrations \in [IntegrationIds -> [platform_type : {"WOOCOMMERCE"}, apiKey : {TRUE},
                                            sync_status : {"DISCONNECTED"}]]
    /\ outbound_logs = <<>>
    /\ retryAttempts = [i \in TrackedLogIds |-> 0]
    /\ retries = [p \in Retriers |-> NoRetry]
    /\ lastCall = NoCall
    /\ ops_order_items = <<>>
    /\ sync_logs = <<>>
    /\ lastRun = NoRun
    /\ imports = [p \in Importers |-> NoImport]
    /\ NoRegistry
    /\ InitCatalog(VariationTables, {row \in InventoryRows : row.available > 0})

NextIsolation ==
    \/ ImportOrders(ItemsAccepted, MaxBatchRuns)
    \/ ExportInventory(ProductFilters, MappingEnvs, MaxBatchRuns)

SpecIsolation == InitIsolation /\ [][NextIsolation]_vars

\* exports one after the other on a WooCommerce integration, over every
\* mapping table and the warehouse rows that are stored
InitScope ==
    /\ ops_orders = [o \in ImportOrderIds |-> NoOrder]
    /\ integrations \in [IntegrationIds -> [platform_type : {"WOOCOMMERCE"}, apiKey : {TRUE},
                                            sync_status : {"DISCONNECTED"}]]
    /\ outbound_logs = <<>>
    /\ retryAttempts = [i \in TrackedLogIds |-> 0]
    /\ retries = [p \in Retriers |-> NoRetry]
    /\ lastCall = NoCall
    /\ ops_order_items = <<>>
    /\ sync_logs = <<>>
    /\ lastRun = NoRun
    /\ imports = [p \in Importers |-> NoImport]
    /\ NoRegistry
    /\ InitCatalog(MappingTables, {row \in InventoryRows : row.stored})

NextScope == ExportInventory(ProductFilters, MappingEnvs, MaxBatchRuns)

SpecScope == InitScope /\ [][NextScope]_vars

\* batch runs one after the other on an integration whose row carries its
\* last-sync time and error message: room for a run after a failed run
InitIntegration ==
    /\ ops_orders = [o \in ImportOrderIds |-> NoOrder]
    /\ integrations \in [IntegrationIds -> [platform_type : {"WOOCOMMERCE"}, apiKey : {TRUE},
                                            sync_status : {"DISCONNECTED"},
                                            last_sync_at : {""}, error_message : {""}]]
    /\ outbound_logs = <<>>
    /\ retryAttempts = [i \in TrackedLogIds |-> 0]
    /\ retries = [p \in Retriers |-> NoRetry]
    /\ lastCall = NoCall
    /\ ops_order_items = <<>>
    /\ sync_logs = <<>>
    /\ lastRun = NoRun
    /\ imports = [p \in Importers |-> NoImport]
    /\ NoRegistry
    /\ InitCatalog(VariationTables, {row \in InventoryRows : row.available > 0})

\* every call made for one record is answered
RecordsAnswered == {env \in LookupAnswered : ~env.insertError /\ ~env.itemsError}
MappingsAnswered == {env \in MappingEnvs : ~env.lookupError /\ ~env.pushError}

NextIntegration ==
    \/ ImportOrders(RecordsAnswered, MaxBatchRuns + 1)
    \/ ExportInventory(ProductFilters, MappingsAnswered, MaxBatchRuns + 1)

SpecIntegration == InitIntegration /\ [][NextIntegration]_vars

\* ------------------------------------------------- inbound order status
\* Part 4: the status an inbound order is stored with, on the storefront
\* import (importOrder) and on the wholesale order sync
\* (RetailerSyncService.syncOrderWithLocation).
InboundStatuses ==
    WooStatuses \cup {"Completed", "PENDING", "Refunded", "shipped", "", "constructor"}

\* String.prototype.toLowerCase on the statuses of the model
toLowerCase(s) ==
    CASE s = "Completed" -> "completed"
      [] s = "PENDING" -> "pending"
      [] s = "Refunded" -> "refunded"
      [] OTHER -> s

\* variant: the status is looked up as it came
mapOrderStatusCaseSensitive(kubaccoStatus) ==
    mapWooCommerceStatusToWarehouse(kubaccoStatus)

\* RetailerSyncService.mapOrderStatus: statusMap[kubaccoStatus?.toLowerCase()]
mapOrderStatus(kubaccoStatus) ==
    LET key == toLowerCase(kubaccoStatus) IN
    CASE key = "pending" -> "PROCESSING"
      [] key = "processing" -> "PROCESSING"
      [] key = "on-hold" -> "PROCESSING"
      [] key = "completed" -> "DELIVERED"
      [] key = "cancelled" -> "CANCELLED"
      [] key = "refunded" -> "RETURNED"
      [] key = "failed" -> "CANCELLED"
      [] key \in ObjectPrototypeKeys -> InheritedMember
      [] OTHER -> "PROCESSING"

\* the wholesale integration, the orders it sends and their retailer
RetailerIntegrationIds == {"i2"}
KubaccoOrderIds == {7}
RetailerEmails == {"retailer@shop"}
LocationAddresses == {"1 Main St"}
InboundOrderIds == {1, 2}

\* kubaccoOrderData.id?.toString()
idToString(n) == CASE n = 7 -> "7"

\* the first datastore write of syncOrderWithLocation that is refused
RetailerFailurePoints == {"none", "customer", "location", "order"}

\* syncRetailerFromKubacco: the customer with this email is updated, or
\* inserted; the customer id and the table
syncRetailerFromKubacco(customers, email) ==
    LET found == {c \in 1..Len(customers) : customers[c].email = email} IN
    IF found # {}
      THEN [customerId |-> CHOOSE c \in found : TRUE, customers |-> customers]
      ELSE [customerId |-> Len(customers) + 1,
            customers |-> Append(customers, [email |-> email, is_active |-> TRUE])]

\* syncLocationForCustomer: the location of the customer at this address is
\* updated, or inserted, the first one as the default
syncLocationForCustomer(locations, customerId, address) ==
    LET found == {l \in 1..Len(locations) : /\ locations[l].customer_id = customerId
                                            /\ locations[l].address = address}
        isFirstLocation == \A l \in 1..Len(locations) : locations[l].customer_id # customerId
    IN
    IF found # {}
      THEN [locationId |-> CHOOSE l \in found : TRUE,
            locations |-> [l \in 1..Len(locations) |->
                             IF l \in found THEN [locations[l] EXCEPT !.is_active = TRUE]
                             ELSE locations[l]]]
      ELSE [locationId |-> Len(locations) + 1,
            locations |-> Append(locations, [customer_id |-> customerId, address |-> address,
                                             is_default |-> isFirstLocation,
                                             is_active |-> TRUE])]

\* what a call of syncOrderWithLocation did and left behind
retailerRun(threw, orderId, orders, items, customers, locations) ==
    [threw |-> threw, orderId |-> orderId, orders |-> orders, items |-> items,
     customers |-> customers, locations |-> locations]

\* syncOrderWithLocation: the retailer and the location are synced, then the
\* order with this external id is updated, or inserted with its line items
syncOrderWithLocation(orders, items, customers, locations, integrationId, kubaccoOrderData, fail) ==
    LET retailer == syncRetailerFromKubacco(customers, kubaccoOrderData.email)
        location == syncLocationForCustomer(locations, retailer.customerId,
                                            kubaccoOrderData.address)
        orderData == [stored |-> TRUE, channel |-> "WHOLESALE",
                      status |-> mapOrderStatus(kubaccoOrderData.status),
                      external_order_id |-> idToString(kubaccoOrderData.id),
                      integration_id |-> integrationId,
                      customer_id |-> retailer.customerId,
                      shipping_location_id |-> location.locationId]
        existing == MatchingOrders(orders, orderData.external_order_id, integrationId)
    IN
    IF fail = "customer"
      THEN retailerRun(TRUE, 0, orders, items, customers, locations)
    ELSE IF fail = "location"
      THEN retailerRun(TRUE, 0, orders, items, retailer.customers, locations)
    ELSE IF fail = "order"
      THEN retailerRun(TRUE, 0, orders, items, retailer.customers, location.locations)
    ELSE IF Cardinality(existing) = 1
      THEN LET existingOrder == CHOOSE i \in existing : TRUE IN
           retailerRun(FALSE, existingOrder, [orders EXCEPT ![existingOrder] = orderData],
                       items, retailer.customers, location.locations)
    ELSE retailerRun(FALSE, NextOrderId(orders), InsertOrder(orders, orderData),
                     IF kubaccoOrderData.line_items > 0
                       THEN Append(items, [order_id |-> NextOrderId(orders)])
                       ELSE items,
                     retailer.customers, location.locations)

\* a call of syncOrderWithLocation for an order in one of statuses
SyncOrderWithLocation(statuses) ==
    \E integrationId \in RetailerIntegrationIds, id \in KubaccoOrderIds, status \in statuses,
       email \in RetailerEmails, address \in LocationAddresses, fail \in RetailerFailurePoints :
      LET kubaccoOrderData == [id |-> id, status |-> status, email |-> email,
                               address |-> address, line_items |-> 1]
          run == syncOrderWithLocation(ops_orders, ops_order_items, ops_customers,
                                       customer_locations, integrationId,
                                       kubaccoOrderData, fail)
      IN
      /\ ~run.threw => run.orderId # 0
      /\ ops_orders' = run.orders
      /\ ops_order_items' = run.items
      /\ ops_customers' = run.customers
      /\ customer_locations' = run.locations
      /\ lastRun' = [op |-> "syncOrder", integrationId |-> integrationId,
                     status |-> status, threw |-> run.threw, orderId |-> run.orderId]
      /\ UNCHANGED <<integrations, outbound_logs, retryAttempts, retries, lastCall, sync_logs,
                     exportVars, imports, webhook_queue, api_keys>>

\* a call of importOrder for an order of ids in one of statuses
ImportOrder(ids, statuses, envs) ==
    \E integrationId \in IntegrationIds, id \in ids, status \in statuses :
      \E result \in importOrderOutcomes(ops_orders, ops_order_items, WooOrder(id, status),
                                        integrationId, envs) :
        /\ result.success => NextOrderId(ops_orders) # 0
        /\ ops_orders' = result.orders
        /\ ops_order_items' = result.items
        /\ lastRun' = [op |-> "importOrder", integrationId |-> integrationId,
                       status |-> status, success |-> result.success,
                       orderId |-> IF result.success THEN NextOrderId(ops_orders) ELSE 0]
        /\ UNCHANGED <<integrations, sync_logs, exportVars, imports, statusSyncVars>>

InitInbound ==
    /\ ops_orders = [o \in InboundOrderIds |-> NoOrder]
    /\ integrations \in [IntegrationIds -> [platform_type : {"WOOCOMMERCE"}, apiKey : {TRUE},
                                            sync_status : {"DISCONNECTED"}]]
    /\ outbound_logs = <<>>
    /\ retryAttempts = [i \in TrackedLogIds |-> 0]
    /\ retries = [p \in Retriers |-> NoRetry]
    /\ lastCall = NoCall
    /\ InitPipelines

NextInbound ==
    \/ ImportOrder({2}, InboundStatuses, ItemsAccepted)
    \/ SyncOrderWithLocation(InboundStatuses)

SpecInbound == InitInbound /\ [][NextInbound]_vars

\* ------------------------------------------------------- webhook intake
\* Part 5: the webhook routes (routes/webhooks.routes.ts) and the queue.
MaxQueue == 1
MaxWebhookLogs == 2

\* the integrations a request can name: a stored one and an unknown one
RequestedIntegrationIds == IntegrationIds \cup {"i9"}
WebhookSecrets == {"", "s1"}
WebhookTopics == {"order.created", "order.updated", "product.updated", ""}
WebhookOrderIds == {2}

\* HMAC-SHA256 in base64 of a payload under a secret: a value that tells its
\* secret and its payload apart from any other
hmacSha256(secret, payload) == <<secret, payload>>

\* the x-wc-webhook-signature header: absent, or one of these
NoSignature == <<>>
Signatures(payload) == {NoSignature} \cup {hmacSha256(k, payload) : k \in {"s1", "forged"}}

\* WooCommerceClient.verifyWebhookSignature
verifyWebhookSignature(payload, signature, secret) == hmacSha256(secret, payload) = signature

\* IntegrationService.queueWebhook: the entry inserted
PendingEntry(integrationId, eventType, payload, signature) ==
    [integration_id |-> integrationId, event_type |-> eventType, payload |-> payload,
     signature |-> signature, status |-> "PENDING", processed |-> FALSE]

\* IntegrationService.updateWebhookStatus
updateWebhookStatus(queue, id, status) ==
    [queue EXCEPT ![id].status = status, ![id].processed = TRUE]

\* the calls of the intake route that can fail, besides those of
\* processWebhookOrder
IntakeEnvs == [getIntegrationError : BOOLEAN, queueError : BOOLEAN]

\* what a request to the intake route did: the response status, whether an
\* entry was queued, and what processWebhookOrder left behind
intakeResponse(code, queued, ran, queue, orders, items, logs) ==
    [code |-> code, queued |-> queued, ran |-> ran, queue |-> queue, orders |-> orders,
     items |-> items, logs |-> logs]

\* POST /webhooks/woocommerce/:integrationId; run is what processWebhookOrder
\* does when the request gets that far
webhookIntake(ints, queue, orders, items, logs, integrationId, payload, signature, topic, event, env, run) ==
    LET rejected(code) == intakeResponse(code, FALSE, FALSE, queue, orders, items, logs)
        eventType == IF topic # "" THEN topic ELSE IF event # "" THEN event ELSE "unknown"
        queued == Append(queue, PendingEntry(integrationId, eventType, payload, signature))
    IN
    IF env.getIntegrationError \/ integrationId \notin DOMAIN ints THEN rejected(500)
    ELSE IF ~ints[integrationId].is_active THEN rejected(400)
    ELSE IF /\ ints[integrationId].webhookSecret # ""
            /\ signature # NoSignature
            /\ ~verifyWebhookSignature(payload, signature, ints[integrationId].webhookSecret)
      THEN rejected(401)
    ELSE IF env.queueError THEN rejected(500)
    ELSE IF topic \in {"order.created", "order.updated"}
      THEN intakeResponse(200, TRUE, TRUE, queued, run.orders, run.items, run.logs)
    ELSE intakeResponse(200, TRUE, FALSE, queued, orders, items, logs)

\* processWebhookOrder not called
NoWebhookRun(orders, items, logs) ==
    webhookRun(FALSE, FALSE, 0,
               [success |-> FALSE, error |-> "", orders |-> orders, items |-> items,
                itemsFailed |-> FALSE], logs)

\* every way a call of processWebhookOrder can go
webhookRuns(orders, items, logs, integrationId, wooOrder, envs) ==
    {processWebhookOrder(orders, items, logs, integrationId, wooOrder, wenv, result) :
       wenv \in WebhookEnvs,
       result \in importOrderOutcomes(orders, items, wooOrder, integrationId, envs)}

\* a request to the intake route; the event header is read only when the
\* topic header is absent
WebhookIntake(envs, limit) ==
    \E integrationId \in RequestedIntegrationIds, id \in WebhookOrderIds,
       status \in ImportedWooStatuses, topic \in WebhookTopics :
      \E event \in (IF topic = "" THEN {"", "updated"} ELSE {""}),
         signature \in Signatures(id), env \in IntakeEnvs :
      LET notRun == NoWebhookRun(ops_orders, ops_order_items, sync_logs)
          reached == webhookIntake(integrations, webhook_queue, ops_orders, ops_order_items,
                                   sync_logs, integrationId, id, signature, topic, event,
                                   env, notRun).ran
      IN
      \E run \in (IF reached
                    THEN webhookRuns(ops_orders, ops_order_items, sync_logs, integrationId,
                                     WooOrder(id, status), envs)
                    ELSE {notRun}) :
        LET response == webhookIntake(integrations, webhook_queue, ops_orders,
                                      ops_order_items, sync_logs, integrationId, id,
                                      signature, topic, event, env, run)
            inserted == Cardinality(StoredOrders(response.orders))
                          - Cardinality(StoredOrders(ops_orders))
        IN
        /\ Len(response.queue) <= MaxQueue
        /\ Len(response.logs) <= limit
        /\ (response.ran /\ run.success) => inserted = 1
        /\ webhook_queue' = response.queue
        /\ ops_orders' = response.orders
        /\ ops_order_items' = response.items
        /\ sync_logs' = response.logs
        /\ lastRun' = [op |-> "intake", integrationId |-> integrationId, payload |-> id,
                       signature |-> signature, code |-> response.code,
                       queued |-> response.queued, ran |-> response.ran,
                       entry |-> IF response.queued THEN Len(response.queue) ELSE 0,
                       entriesBefore |-> Len(webhook_queue),
                       ordersInserted |-> inserted]
        /\ UNCHANGED <<integrations, outbound_logs, retryAttempts, retries, lastCall, exportVars,
                       imports, ops_customers, customer_locations, api_keys>>

\* whether the two status updates of the retry route are refused
RetryEnvs == [completeError : BOOLEAN, failError : BOOLEAN]

\* what a request to the retry route did
retryResponse(code, attempted, queue, orders, items, logs) ==
    [code |-> code, attempted |-> attempted, queue |-> queue, orders |-> orders,
     items |-> items, logs |-> logs]

\* POST /webhooks/queue/:id/retry; run is what processWebhookOrder does with
\* the payload of the entry
retryWebhook(queue, orders, items, logs, id, env, run) ==
    LET failed == IF env.failError THEN queue ELSE updateWebhookStatus(queue, id, "FAILED") IN
    IF id \notin DOMAIN queue THEN retryResponse(500, FALSE, queue, orders, items, logs)
    ELSE IF queue[id].event_type \notin {"order.created", "order.updated"}
      THEN retryResponse(400, FALSE, queue, orders, items, logs)
    ELSE IF run.threw \/ env.completeError
      THEN retryResponse(500, TRUE, failed, run.orders, run.items, run.logs)
    ELSE retryResponse(200, TRUE, updateWebhookStatus(queue, id, "COMPLETED"),
                       run.orders, run.items, run.logs)

\* a request to the retry route
RetryWebhook(envs, limit) ==
    \E id \in 1..MaxQueue, status \in ImportedWooStatuses, env \in RetryEnvs :
      LET known == id \in DOMAIN webhook_queue
          integrationId == IF known THEN webhook_queue[id].integration_id ELSE ""
          wooOrder == WooOrder(IF known THEN webhook_queue[id].payload ELSE 0, status)
          notRun == NoWebhookRun(ops_orders, ops_order_items, sync_logs)
          reached == retryWebhook(webhook_queue, ops_orders, ops_order_items, sync_logs,
                                  id, env, notRun).attempted
      IN
      \E run \in (IF reached
                    THEN webhookRuns(ops_orders, ops_order_items, sync_logs, integrationId,
                                     wooOrder, envs)
                    ELSE {notRun}) :
        LET response == retryWebhook(webhook_queue, ops_orders, ops_order_items, sync_logs,
                                     id, env, run)
            inserted == Cardinality(StoredOrders(response.orders))
                          - Cardinality(StoredOrders(ops_orders))
        IN
        /\ Len(response.logs) <= limit
        /\ (response.attempted /\ run.success) => inserted = 1
        /\ webhook_queue' = response.queue
        /\ ops_orders' = response.orders
        /\ ops_order_items' = response.items
        /\ sync_logs' = response.logs
        /\ lastRun' = [op |-> "retry", entry |-> id, code |-> response.code,
                       attempted |-> response.attempted,
                       entriesBefore |-> Len(webhook_queue)]
        /\ UNCHANGED <<integrations, outbound_logs, retryAttempts, retries, lastCall, exportVars,
                       imports, ops_customers, customer_locations, api_keys>>

InitWebhooks ==
    /\ ops_orders = [o \in InboundOrderIds |-> NoOrder]
    /\ integrations \in [IntegrationIds -> [platform_type : {"WOOCOMMERCE"}, apiKey : {TRUE},
                                            sync_status : {"DISCONNECTED"},
                                            is_active : BOOLEAN,
                                            webhookSecret : WebhookSecrets]]
    /\ outbound_logs = <<>>
    /\ retryAttempts = [i \in TrackedLogIds |-> 0]
    /\ retries = [p \in Retriers |-> NoRetry]
    /\ lastCall = NoCall
    /\ InitPipelines

NextWebhooks ==
    \/ WebhookIntake(ItemsAccepted, MaxWebhookLogs)
    \/ RetryWebhook(ItemsAccepted, MaxWebhookLogs)

SpecWebhooks == InitWebhooks /\ [][NextWebhooks]_vars

\* ------------------------------------------------------------- API keys
\* Part 6: issue, verification and revocation of API keys
\* (IntegrationService, authenticateApiKey).
MaxApiKeys == 2

\* a secret is `kb_` followed by 64 hex digits: its first 12 characters and
\* the rest; crypto.randomBytes yields one no key was made of before
ApiSecrets == {<<"kb_a1b2c3d4e", r>> : r \in {"r1", "r2"}} \cup {<<"kb_000000000", "r0">>}
\* key.substring(0, 12)
keyPrefixOf(key) == <<key[1]>>
\* SHA-256 in hex: a value that tells its input apart from any other
sha256(key) == <<"sha256", key[1], key[2]>>

\* the clock, and expires_at of a key that does not expire (null)
Times == {1, 2, 3}
NoExpiry == 0

\* a key issued before, with an expiry set in the datastore
SeededKey ==
    [name |-> "seeded", key_hash |-> sha256(<<"kb_000000000", "r0">>),
     key_prefix |-> keyPrefixOf(<<"kb_000000000", "r0">>), permissions |-> {"*"},
     is_active |-> TRUE, expires_at |-> 2, last_used |-> FALSE]

\* variant: the key itself is stored in place of its digest
generateApiKeyStoringKey(keys, name, permissions, key, insertError) ==
    IF insertError THEN [threw |-> TRUE, keys |-> keys, returned |-> <<>>]
    ELSE [threw |-> FALSE,
          keys |-> Append(keys, [name |-> name, key_hash |-> key,
                                 key_prefix |-> keyPrefixOf(key), permissions |-> permissions,
                                 is_active |-> TRUE, expires_at |-> NoExpiry,
                                 last_used |-> FALSE]),
          returned |-> <<[id |-> Len(keys) + 1, key |-> key,
                          key_prefix |-> keyPrefixOf(key)]>>]

\* generateApiKey: the row inserted and the value returned (<<>>: it threw)
generateApiKey(keys, name, permissions, key, insertError) ==
    IF insertError THEN [threw |-> TRUE, keys |-> keys, returned |-> <<>>]
    ELSE [threw |-> FALSE,
          keys |-> Append(keys, [name |-> name, key_hash |-> sha256(key),
                                 key_prefix |-> keyPrefixOf(key), permissions |-> permissions,
                                 is_active |-> TRUE, expires_at |-> NoExpiry,
                                 last_used |-> FALSE]),
          returned |-> <<[id |-> Len(keys) + 1, key |-> key,
                          key_prefix |-> keyPrefixOf(key)]>>]

\* variant: the lookup does not ask for an active key
verifyApiKeyOfAnyState(keys, key, now, lookupError) ==
    LET found == {k \in 1..Len(keys) : keys[k].key_hash = sha256(key)} IN
    IF lookupError \/ Cardinality(found) > 1
      THEN [threw |-> TRUE, keys |-> keys, returned |-> <<>>]
    ELSE IF found = {} THEN [threw |-> FALSE, keys |-> keys, returned |-> <<>>]
    ELSE LET id == CHOOSE k \in found : TRUE IN
         IF keys[id].expires_at # NoExpiry /\ keys[id].expires_at < now
           THEN [threw |-> FALSE, keys |-> keys, returned |-> <<>>]
           ELSE [threw |-> FALSE, keys |-> [keys EXCEPT ![id].last_used = TRUE],
                 returned |-> <<keys[id] @@ [id |-> id]>>]

\* verifyApiKey at time now: the key record returned (<<>>: null), after
\* last_used_at is refreshed
verifyApiKey(keys, key, now, lookupError) ==
    LET found == {k \in 1..Len(keys) : keys[k].key_hash = sha256(key) /\ keys[k].is_active} IN
    IF lookupError \/ Cardinality(found) > 1
      THEN [threw |-> TRUE, keys |-> keys, returned |-> <<>>]
    ELSE IF found = {} THEN [threw |-> FALSE, keys |-> keys, returned |-> <<>>]
    ELSE LET id == CHOOSE k \in found : TRUE IN
         IF keys[id].expires_at # NoExpiry /\ keys[id].expires_at < now
           THEN [threw |-> FALSE, keys |-> keys, returned |-> <<>>]
           ELSE [threw |-> FALSE, keys |-> [keys EXCEPT ![id].last_used = TRUE],
                 returned |-> <<keys[id] @@ [id |-> id]>>]

\* getApiKeys: the columns selected, key_hash is not among them
getApiKeys(keys) ==
    [k \in 1..Len(keys) |->
       [id |-> k, name |-> keys[k].name, key_prefix |-> keys[k].key_prefix,
        permissions |-> keys[k].permissions, is_active |-> keys[k].is_active,
        last_used |-> keys[k].last_used, expires_at |-> keys[k].expires_at]]

\* revokeApiKey
revokeApiKey(keys, id, updateError) ==
    IF updateError THEN [threw |-> TRUE, keys |-> keys]
    ELSE [threw |-> FALSE,
          keys |-> [k \in 1..Len(keys) |->
                      IF k = id THEN [keys[k] EXCEPT !.is_active = FALSE] ELSE keys[k]]]

\* POST /api-keys
CreateApiKey(limit) ==
    /\ Len(api_keys) < limit
    /\ \E name \in {"", "erp"}, insertError \in BOOLEAN :
         \E key \in {k \in ApiSecrets : \A r \in 1..Len(api_keys) : api_keys[r].key_hash \notin {sha256(k), k}} :
           LET valid == name # ""
               out == generateApiKey(api_keys, name, {"orders:read"}, key, insertError) IN
           /\ api_keys' = IF valid THEN out.keys ELSE api_keys
           /\ lastRun' = [op |-> "createKey",
                          code |-> IF ~valid THEN 400 ELSE IF out.threw THEN 500 ELSE 201,
                          returned |-> IF valid THEN out.returned ELSE <<>>,
                          keysBefore |-> api_keys]
    /\ UNCHANGED <<ops_orders, integrations, outbound_logs, retryAttempts, retries, lastCall>>
    /\ UNCHANGED <<ops_order_items, sync_logs, exportVars, imports>>
    /\ UNCHANGED <<ops_customers, customer_locations, webhook_queue>>

\* GET /api-keys
ListApiKeys ==
    /\ lastRun' = [op |-> "listKeys", code |-> 200, returned |-> getApiKeys(api_keys),
                   keysBefore |-> api_keys]
    /\ UNCHANGED <<ops_orders, integrations, outbound_logs, retryAttempts, retries, lastCall>>
    /\ UNCHANGED <<ops_order_items, sync_logs, exportVars, imports, registryVars>>

\* DELETE /api-keys/:id
RevokeApiKey ==
    /\ \E id \in 1..MaxApiKeys + 1, updateError \in BOOLEAN :
         LET out == revokeApiKey(api_keys, id, updateError) IN
         /\ api_keys' = out.keys
         /\ lastRun' = [op |-> "revokeKey", code |-> IF out.threw THEN 500 ELSE 200,
                        id |-> id, keysBefore |-> api_keys]
    /\ UNCHANGED <<ops_orders, integrations, outbound_logs, retryAttempts, retries, lastCall>>
    /\ UNCHANGED <<ops_order_items, sync_logs, exportVars, imports>>
    /\ UNCHANGED <<ops_customers, customer_locations, webhook_queue>>

\* authenticateApiKey in front of the routes of the external API
AuthenticateApiKey ==
    /\ \E bearer \in BOOLEAN, key \in ApiSecrets, now \in Times, lookupError \in BOOLEAN :
         LET out == verifyApiKey(api_keys, key, now, lookupError) IN
         /\ api_keys' = IF bearer THEN out.keys ELSE api_keys
         /\ lastRun' = [op |-> "authenticate", bearer |-> bearer, key |-> key, now |-> now,
                        lookupError |-> lookupError,
                        code |-> IF ~bearer THEN 401
                                 ELSE IF out.threw THEN 500
                                 ELSE IF out.returned = <<>> THEN 401 ELSE 200,
                        returned |-> IF bearer THEN out.returned ELSE <<>>,
                        keysBefore |-> api_keys]
    /\ UNCHANGED <<ops_orders, integrations, outbound_logs, retryAttempts, retries, lastCall>>
    /\ UNCHANGED <<ops_order_items, sync_logs, exportVars, imports>>
    /\ UNCHANGED <<ops_customers, customer_locations, webhook_queue>>

InitApiKeys ==
    /\ ops_orders = <<>>
    /\ integrations = <<>>
    /\ outbound_logs = <<>>
    /\ retryAttempts = 0
    /\ retries = [p \in Retriers |-> NoRetry]
    /\ lastCall = NoCall
    /\ ops_order_items = <<>>
    /\ sync_logs = <<>>
    /\ lastRun = NoRun
    /\ NoCatalog
    /\ imports = [p \in Importers |-> NoImport]
    /\ ops_customers = <<>>
    /\ customer_locations = <<>>
    /\ webhook_queue = <<>>
    /\ api_keys \in {<<>>, <<SeededKey>>}

NextApiKeys ==
    \/ CreateApiKey(MaxApiKeys)
    \/ ListApiKeys
    \/ RevokeApiKey
    \/ AuthenticateApiKey

SpecApiKeys == InitApiKeys /\ [][NextApiKeys]_vars

\* ------------------------------------------------------ request signing
\* Part 7: the signature of an outbound request (WooCommerceClient).  A text
\* is the sequence of its characters.
MaxParams == 2

\* the characters of the texts below, in the order of their code units
Alphabet ==
    <<"%", "&", "-", ".", "/", "0", "1", "2", "3", "5", "6", ":", "=", "A", "C", "D", "E",
      "F", "G", "H", "M", "P", "S", "T", "U", "_", "a", "b", "c", "d", "e", "g", "h", "i",
      "k", "m", "n", "o", "p", "r", "s", "t", "u", "v", "y">>
codeUnitRank(c) == CHOOSE i \in 1..Len(Alphabet) : Alphabet[i] = c

\* s < t as JavaScript compares strings
lessThan(s, t) ==
    \E i \in 1..Len(t) :
      /\ \A j \in 1..(i - 1) : j <= Len(s) /\ s[j] = t[j]
      /\ i > Len(s) \/ (i <= Len(s) /\ codeUnitRank(s[i]) < codeUnitRank(t[i]))

\* Array.prototype.sort on a set of distinct keys
RECURSIVE sort(_)
sort(keys) ==
    IF keys = {} THEN <<>>
    ELSE LET first == CHOOSE k \in keys : \A other \in keys \ {k} : lessThan(k, other)
         IN <<first>> \o sort(keys \ {first})

\* the texts of a sequence one after the other
RECURSIVE concat(_)
concat(texts) ==
    IF Len(texts) = 0 THEN <<>>
    ELSE IF Len(texts) = 1 THEN texts[1]
    ELSE LET half == Len(texts) \div 2
         IN concat(SubSeq(texts, 1, half)) \o concat(SubSeq(texts, half + 1, Len(texts)))

\* Array.prototype.join on texts
RECURSIVE join(_, _)
join(texts, separator) ==
    IF texts = <<>> THEN <<>>
    ELSE IF Len(texts) = 1 THEN texts[1]
    ELSE texts[1] \o separator \o join(Tail(texts), separator)

\* variant: no character is escaped
encodeURIComponentAsIs(text) == text

\* encodeURIComponent: the reserved characters of the texts are escaped
encodeURIComponent(text) ==
    LET escape(c) == CASE c = "%" -> <<"%", "2", "5">>
                       [] c = "&" -> <<"%", "2", "6">>
                       [] c = "/" -> <<"%", "2", "F">>
                       [] c = ":" -> <<"%", "3", "A">>
                       [] c = "=" -> <<"%", "3", "D">>
                       [] OTHER -> <<c>>
    IN concat([k \in 1..Len(text) |-> escape(text[k])])

\* String.prototype.toUpperCase on the method names
toUpperCase(text) ==
    LET upper(c) == CASE c = "g" -> "G" [] c = "e" -> "E" [] c = "t" -> "T"
                      [] c = "p" -> "P" [] c = "u" -> "U" [] OTHER -> c
    IN [k \in 1..Len(text) |-> upper(text[k])]

\* an object is the sequence of its <<key, value>> entries in insertion
\* order; the value of a key
valueOf(params, key) == params[CHOOSE k \in 1..Len(params) : params[k][1] = key][2]

\* { ...first, ...second }
spread(first, second) ==
    LET overridden == [k \in 1..Len(first) |->
                         IF \E l \in 1..Len(second) : second[l][1] = first[k][1]
                           THEN <<first[k][1], valueOf(second, first[k][1])>>
                           ELSE first[k]]
        added == SelectSeq(second, LAMBDA e : \A k \in 1..Len(first) : first[k][1] # e[1])
    IN overridden \o added

\* generateOAuthSignature
generateOAuthSignature(method, url, params, consumerSecret) ==
    LET keys == sort({params[k][1] : k \in 1..Len(params)})
        sortedParams == join([k \in 1..Len(keys) |->
                                encodeURIComponent(keys[k]) \o <<"=">>
                                  \o encodeURIComponent(valueOf(params, keys[k]))], <<"&">>)
        signatureBaseString == join(<<toUpperCase(method), encodeURIComponent(url),
                                      encodeURIComponent(sortedParams)>>, <<"&">>)
        signingKey == encodeURIComponent(consumerSecret) \o <<"&">>
    IN hmacSha256(signingKey, signatureBaseString)

\* getOAuthParams at a given time and with a given nonce
getOAuthParams(consumerKey, timestamp, nonce) ==
    <<<<<<"o", "a", "u", "t", "h", "_", "c", "o", "n", "s", "u", "m", "e", "r", "_", "k", "e", "y">>, consumerKey>>,
      <<<<"o", "a", "u", "t", "h", "_", "t", "i", "m", "e", "s", "t", "a", "m", "p">>, timestamp>>,
      <<<<"o", "a", "u", "t", "h", "_", "n", "o", "n", "c", "e">>, nonce>>,
      <<<<"o", "a", "u", "t", "h", "_", "s", "i", "g", "n", "a", "t", "u", "r", "e", "_", "m", "e", "t", "h", "o", "d">>, <<"H", "M", "A", "C", "-", "S", "H", "A", "2", "5", "6">>>>,
      <<<<"o", "a", "u", "t", "h", "_", "v", "e", "r", "s", "i", "o", "n">>, <<"1", ".", "0">>>>>>

\* the signing part of request: the parameters sent and the signature
request(method, url, queryParams, config, timestamp, nonce) ==
    LET allParams == spread(getOAuthParams(config.consumerKey, timestamp, nonce), queryParams)
    IN [allParams |-> allParams,
        signature |-> generateOAuthSignature(method, url, allParams, config.consumerSecret)]

Methods == {<<"g", "e", "t">>, <<"G", "E", "T">>, <<"P", "U", "T">>}
Urls == {<<"h", ":", "/", "s", "/", "o">>, <<"h", ":", "/", "s", "/", "p">>}
ConsumerSecrets == {<<"c", "s", "1">>, <<"c", "s", "&">>}
Timestamps == {<<"1">>, <<"2">>}
Nonces == {<<"n", "1">>}
ParamKeys == {<<"a">>, <<"b">>}
ParamValues == {<<"1">>, <<"1", "&", "b", "=", "1">>}
\* the query parameters of a request, in the order they were supplied
QueryParams ==
    UNION {{q \in [1..n -> ParamKeys \X ParamValues] :
              \A k, l \in 1..n : q[k][1] = q[l][1] => k = l} : n \in 0..MaxParams}
SigningInputs ==
    [method : Methods, url : Urls, queryParams : QueryParams,
     consumerSecret : ConsumerSecrets, timestamp : Timestamps, nonce : Nonces]

\* the inputs that differ from input in one of method, URL, consumer secret,
\* timestamp and query parameters, and input itself
Variations(input) ==
    {v \in SigningInputs :
       Cardinality({f \in {"method", "url", "queryParams", "consumerSecret", "timestamp"} :
                      v[f] # input[f]}) <= 1}

WooCommerceConfig(consumerSecret) ==
    [consumerKey |-> <<"c", "k">>, consumerSecret |-> consumerSecret]

\* one request signed
Signed(input) ==
    LET out == request(input.method, input.url, input.queryParams,
                       WooCommerceConfig(input.consumerSecret), input.timestamp, input.nonce)
    IN [input |-> input, allParams |-> out.allParams, signature |-> out.signature]

\* a request is signed, and next to it a request that differs in one input
SignRequests ==
    /\ lastRun.op = "unsigned"
    /\ \E other \in Variations(lastRun.input) :
         lastRun' = [op |-> "sign", first |-> Signed(lastRun.input), second |-> Signed(other)]
    /\ UNCHANGED <<ops_orders, integrations, outbound_logs, retryAttempts, retries, lastCall>>
    /\ UNCHANGED <<ops_order_items, sync_logs, exportVars, imports, registryVars>>

InitSigning ==
    /\ ops_orders = <<>>
    /\ integrations = <<>>
    /\ outbound_logs = <<>>
    /\ retryAttempts = 0
    /\ retries = [p \in Retriers |-> NoRetry]
    /\ lastCall = NoCall
    /\ ops_order_items = <<>>
    /\ sync_logs = <<>>
    /\ lastRun \in {[op |-> "unsigned", input |-> input] : input \in SigningInputs}
    /\ NoCatalog
    /\ imports = [p \in Importers |-> NoImport]
    /\ NoRegistry

NextSigning == SignRequests

SpecSigning == InitSigning /\ [][NextSigning]_vars

\* ------------------------------------------------------- stock updates
\* Part 8: the stock updates of the platform client (WooCommerceClient).
MaxUpdates == 2
MaxMappings == 3

StockQuantities == {-1, 0, 1}
ShopProductIds == {11}
ShopVariations == {<<12, 120>>}
StockTargets == {<<id, 0>> : id \in ShopProductIds} \cup ShopVariations

\* a body sent for an entry of the shop, and the shop once it took the bodies
\* sent (a request the platform refuses changes nothing)
StockRequest(target, body) == [target |-> target, body |-> body]
shopAfter(stock, sent, requestError) ==
    IF requestError THEN stock
    ELSE [t \in DOMAIN stock |->
            LET last == {k \in 1..Len(sent) :
                           /\ sent[k].target = t
                           /\ \A l \in 1..Len(sent) : sent[l].target = t => l <= k}
            IN IF last = {} THEN stock[t] ELSE sent[CHOOSE k \in last : TRUE].body]

\* updateProductStock
updateProductStock(productId, stockQuantity) ==
    <<StockRequest(<<productId, 0>>, PushedStock(stockQuantity))>>

\* updateProductVariationStock
updateProductVariationStock(productId, variationId, stockQuantity) ==
    <<StockRequest(<<productId, variationId>>, PushedStock(stockQuantity))>>

\* batchUpdateProducts: one entry for each update
batchUpdateProducts(updates) ==
    [k \in 1..Len(updates) |->
       StockRequest(<<updates[k].id, 0>>, PushedStock(updates[k].stock_quantity))]

\* the updates of a batch
StockUpdates ==
    UNION {[1..n -> [id : ShopProductIds, stock_quantity : StockQuantities]] : n \in 1..MaxUpdates}

\* a call of the client: what was asked for, and the bodies sent
StockCall(call, asked, sent, requestError) ==
    /\ woo_stock' = shopAfter(woo_stock, sent, requestError)
    /\ lastRun' = [op |-> "stock", call |-> call, asked |-> asked, sent |-> sent,
                   threw |-> requestError]
    /\ UNCHANGED <<ops_orders, integrations, outbound_logs, retryAttempts, retries, lastCall>>
    /\ UNCHANGED <<ops_order_items, sync_logs, product_mappings, warehouse_inventory>>
    /\ UNCHANGED <<imports, registryVars>>

UpdateProductStock ==
    \E productId \in ShopProductIds, stockQuantity \in StockQuantities, requestError \in BOOLEAN :
      StockCall("updateProductStock", <<stockQuantity>>,
                updateProductStock(productId, stockQuantity), requestError)

UpdateProductVariationStock ==
    \E variation \in ShopVariations, stockQuantity \in StockQuantities, requestError \in BOOLEAN :
      StockCall("updateProductVariationStock", <<stockQuantity>>,
                updateProductVariationStock(variation[1], variation[2], stockQuantity),
                requestError)

BatchUpdateProducts ==
    \E updates \in StockUpdates, requestError \in BOOLEAN :
      StockCall("batchUpdateProducts",
                [k \in 1..Len(updates) |-> updates[k].stock_quantity],
                batchUpdateProducts(updates), requestError)

InitStock ==
    /\ ops_orders = <<>>
    /\ integrations = <<>>
    /\ outbound_logs = <<>>
    /\ retryAttempts = 0
    /\ retries = [p \in Retriers |-> NoRetry]
    /\ lastCall = NoCall
    /\ ops_order_items = <<>>
    /\ sync_logs = <<>>
    /\ lastRun = NoRun
    /\ product_mappings = <<>>
    /\ warehouse_inventory = <<>>
    /\ woo_stock = [t \in StockTargets |-> Unmanaged]
    /\ imports = [p \in Importers |-> NoImport]
    /\ NoRegistry

NextStock ==
    \/ UpdateProductStock
    \/ UpdateProductVariationStock
    \/ BatchUpdateProducts

SpecStock == InitStock /\ [][NextStock]_vars

\* -------------------------------------------------------- product mappings
\* Part 9: POST /integrations/:id/product-mappings and
\* POST /integrations/:id/auto-map-products
\* (InventorySyncService.autoMapProductsBySku).
Skus == {"S1", "S2"}

\* the table variations: id, sku and product_id of each variation
variations ==
    <<[id |-> "v1", sku |-> "S1", product_id |-> "p2"],
      [id |-> "v2", sku |-> "S2", product_id |-> "p1"]>>

\* a product of the shop as getProducts returns it
WooProduct(id, sku) == [id |-> id, sku |-> sku]

\* the pages getProducts can return: products with a SKU of the warehouse,
\* without a SKU, and with a SKU the warehouse does not know
WooProductPages ==
    {<<WooProduct(11, "S1"), WooProduct(12, "S2")>>,
     <<WooProduct(12, "S2"), WooProduct(11, "S1")>>,
     <<WooProduct(13, ""), WooProduct(11, "S1")>>,
     <<WooProduct(13, "S9"), WooProduct(12, "S2")>>}

\* Number.prototype.toString on the product ids of the pages
toString(id) ==
    CASE id = 11 -> "11"
      [] id = 12 -> "12"
      [] id = 13 -> "13"

\* variations?.find(v => v.sku === sku): the position of the first match, or 0
findVariation(sku) ==
    LET matching == {k \in 1..Len(variations) : variations[k].sku = sku} IN
    IF matching = {} THEN 0 ELSE CHOOSE k \in matching : \A l \in matching : k <= l

\* IntegrationService.findProductMappingBySku: maybeSingle fails on a query
\* error and when more than one row matches; the error is thrown
findProductMappingBySku(mappings, integrationId, sku, lookupError) ==
    LET matching == {k \in 1..Len(mappings) :
                       /\ mappings[k].integration_id = integrationId
                       /\ mappings[k].sku = sku}
    IN
    [threw |-> lookupError \/ Cardinality(matching) > 1, found |-> matching # {}]

\* IntegrationService.createProductMapping: the insert, refused or not
createProductMapping(mappings, data, insertError) ==
    [threw |-> insertError,
     mappings |-> IF insertError THEN mappings ELSE Append(mappings, data)]

\* the errors one turn of the auto-map loop can meet
AutoMapEnvs == [lookupError : BOOLEAN, insertError : BOOLEAN]

\* the body of the auto-map loop for wooProduct
autoMapProduct(st, integrationId, wooProduct, env) ==
    LET v == findVariation(wooProduct.sku)
        existingMapping == findProductMappingBySku(st.mappings, integrationId,
                                                   wooProduct.sku, env.lookupError)
        created ==
            createProductMapping(
                st.mappings,
                [ProductMapping(integrationId, variations[v].product_id, "CIGAR",
                                variations[v].id, toString(wooProduct.id), "", TRUE)
                   EXCEPT !.sku = wooProduct.sku],
                env.insertError)
    IN
    IF wooProduct.sku = "" THEN st
    ELSE IF v = 0 THEN st
    ELSE IF existingMapping.threw THEN [st EXCEPT !.threw = TRUE]
    ELSE IF existingMapping.found THEN st
    ELSE IF created.threw
      THEN [st EXCEPT !.errors = Append(@, <<"Failed to map SKU", wooProduct.sku>>)]
    ELSE [st EXCEPT !.mappings = created.mappings, !.mapped = @ + 1]

\* the loop over wooProducts from position n on: every way it can end; an
\* exception thrown outside the inner try block ends it
RECURSIVE autoMapLoop(_, _, _, _)
autoMapLoop(st, integrationId, wooProducts, n) ==
    IF n > Len(wooProducts) \/ st.threw THEN {st}
    ELSE UNION {autoMapLoop(autoMapProduct(st, integrationId, wooProducts[n], env),
                            integrationId, wooProducts, n + 1) : env \in AutoMapEnvs}

\* the first call of autoMapProductsBySku that fails before the loop
AutoMapFailurePoints == {"none", "getIntegration", "getProducts", "variations"}

\* autoMapProductsBySku: every way the run can end; started tells whether it
\* got to its loop
autoMapProductsBySku(mappings, ints, integrationId, wooProducts, fail) ==
    LET start == [mappings |-> mappings, mapped |-> 0, errors |-> <<>>, threw |-> FALSE,
                  started |-> TRUE]
        thrown == [start EXCEPT !.threw = TRUE, !.started = FALSE]
    IN
    IF fail = "getIntegration" \/ integrationId \notin DOMAIN ints THEN {thrown}
    ELSE IF ints[integrationId].platform_type # "WOOCOMMERCE" THEN {thrown}
    ELSE IF fail \in {"getProducts", "variations"} THEN {thrown}
    ELSE autoMapLoop(start, integrationId, wooProducts, 1)

\* the request bodies of POST /integrations/:id/product-mappings drawn here:
\* the shop product 11 mapped to a variation, with or without its SKU
MappingBodies ==
    {[ProductMapping("", "p2", "CIGAR", "v1", "11", "", TRUE) EXCEPT !.sku = sku] :
       sku \in {"", "S1"}}

\* POST /integrations/:id/product-mappings
CreateProductMapping(limit) ==
    \E integrationId \in IntegrationIds, body \in MappingBodies, insertError \in BOOLEAN :
      LET mappingData == [body EXCEPT !.integration_id = integrationId]
          created == createProductMapping(product_mappings, mappingData, insertError)
      IN
      /\ Len(product_mappings) < limit
      /\ product_mappings' = created.mappings
      /\ lastRun' = [op |-> "createMapping", integrationId |-> integrationId,
                     code |-> IF created.threw THEN 500 ELSE 201]
      /\ UNCHANGED <<ops_orders, ops_order_items, sync_logs, integrations,
                     warehouse_inventory, woo_stock, imports, statusSyncVars>>

\* POST /integrations/:id/auto-map-products
AutoMapProducts(limit) ==
    \E integrationId \in IntegrationIds, wooProducts \in WooProductPages,
       fail \in AutoMapFailurePoints :
      \E run \in autoMapProductsBySku(product_mappings, integrations, integrationId,
                                       wooProducts, fail) :
        /\ Len(run.mappings) <= limit
        /\ product_mappings' = run.mappings
        /\ lastRun' = [op |-> "autoMap", integrationId |-> integrationId,
                       wooProducts |-> wooProducts, before |-> product_mappings,
                       started |-> run.started, threw |-> run.threw,
                       mapped |-> run.mapped, errors |-> run.errors]
        /\ UNCHANGED <<ops_orders, ops_order_items, sync_logs, integrations,
                       warehouse_inventory, woo_stock, imports, statusSyncVars>>

InitMappings ==
    /\ ops_orders = [o \in OrderIds |-> NoOrder]
    /\ integrations \in [IntegrationIds -> [platform_type : PlatformTypes, apiKey : {TRUE},
                                            sync_status : {"DISCONNECTED"}]]
    /\ outbound_logs = <<>>
    /\ retryAttempts = [i \in TrackedLogIds |-> 0]
    /\ retries = [p \in Retriers |-> NoRetry]
    /\ lastCall = NoCall
    /\ InitPipelines

NextMappings ==
    \/ CreateProductMapping(MaxMappings)
    \/ AutoMapProducts(MaxMappings)

SpecMappings == InitMappings /\ [][NextMappings]_vars

\* ------------------------------------------------------------- properties
\* C1: a sync for an order whose channel and integration platform are not an
\* allowed pair (WHOLESALE with KUBACCO_APP, ONLINE with WOOCOMMERCE) returns
\* success = false, makes no platform call and writes no SUCCESS row.
C1_MismatchedSyncIsRejected ==
    LET order == ops_orders[lastCall.orderId]
        platform == integrations[order.integration_id].platform_type
    IN
    (/\ lastCall.op = "sync"
     /\ order.stored
     /\ ~(\/ order.channel = "WHOLESALE" /\ platform = "KUBACCO_APP"
          \/ order.channel = "ONLINE" /\ platform = "WOOCOMMERCE"))
      => (/\ ~lastCall.success
          /\ lastCall.called = "NONE"
          /\ lastCall.rowResult # "SUCCESS")

\* a WHOLESALE order on a WooCommerce integration was synced and refused
C1_Witness ==
    /\ lastCall.op = "sync"
    /\ ops_orders[lastCall.orderId].stored
    /\ ops_orders[lastCall.orderId].channel = "WHOLESALE"
    /\ integrations[ops_orders[lastCall.orderId].integration_id].platform_type = "WOOCOMMERCE"
    /\ lastCall.error = "Channel segregation violation"
    /\ lastCall.rowResult = "FAILED"
    /\ ~lastCall.success

\* C2: whatever syncs, retries and edits came before, a status push (from
\* the sync or from the retry path) goes to the platform allowed for the
\* channel the order has at the time of the push.
C2_PushGoesToAllowedPlatform ==
    lastCall.called # "NONE" =>
        LET order == ops_orders[lastCall.orderId] IN
        \/ order.channel = "WHOLESALE" /\ lastCall.called = "KUBACCO_APP"
        \/ order.channel = "ONLINE" /\ lastCall.called = "WOOCOMMERCE"

\* C3: once retrySyncLog has been called five times on a row, whatever the
\* outcomes were, a further call on that row makes no platform call.
C3_SixthRetryMakesNoCall ==
    (lastCall.op = "retry" /\ lastCall.attemptsBefore >= 5)
      => lastCall.called = "NONE"

C5_SecondImportIsRefused ==
    /\ \A id \in WooOrderIds, i \in IntegrationIds :
         Cardinality(MatchingOrders(ops_orders, id, i)) <= 1
    /\ (lastRun.op = "webhook" /\ lastRun.ran /\ lastRun.existed)
         => (/\ ~lastRun.success
             /\ lastRun.error = "Order already imported"
             /\ lastRun.ordersInserted = 0
             /\ lastRun.itemsInserted = 0)

\* C7: a batch import that completed its loop counted every fetched order
\* once, as imported, skipped or failed, and counted the orders that were
\* already stored as skipped.
C7_EveryFetchedOrderCountedOnce ==
    (lastRun.op = "import" /\ lastRun.loopCompleted) =>
        /\ lastRun.total = lastRun.imported + lastRun.skipped + lastRun.failed
        /\ lastRun.existingImported = 0
        /\ lastRun.existingFailed = 0

\* C10: the status sent to WooCommerce or to Kubacco is the entry of that
\* platform's table for the warehouse status being pushed.
C10_SentStatusIsTableEntry ==
    LET woo == [PROCESSING |-> "processing", READY_TO_SHIP |-> "processing",
                SHIPMENT_CREATED |-> "processing", PACKAGING |-> "processing",
                SHIPPED |-> "completed", IN_TRANSIT |-> "completed",
                DELIVERED |-> "completed", CANCELLED |-> "cancelled",
                RETURNED |-> "refunded"]
        kubacco == [woo EXCEPT !.IN_TRANSIT = "in-transit"]
    IN
    /\ lastCall.called = "WOOCOMMERCE" => lastCall.sent = woo[lastCall.newStatus]
    /\ lastCall.called = "KUBACCO_APP" => lastCall.sent = kubacco[lastCall.newStatus]

\* IN_TRANSIT was pushed to Kubacco as in-transit
C10_Witness ==
    /\ lastCall.op = "sync"
    /\ lastCall.success
    /\ lastCall.called = "KUBACCO_APP"
    /\ lastCall.newStatus = "IN_TRANSIT"
    /\ lastCall.sent = "in-transit"

\* C9: in an inventory export whose loop completes, a mapping whose product
\* has no warehouse row is skipped with an error naming the product id, is not
\* pushed to the shop and is not counted as synced; a mapping whose row exists
\* (available = 0 included) and that met no error is pushed.
C9_MissingProductIsSkipped ==
    (lastRun.op = "export" /\ lastRun.loopCompleted) =>
        LET inScope == {lastRun.scope[n] : n \in 1..Len(lastRun.scope)}
            product(k) == product_mappings[k].warehouse_product_id
            missing == {k \in inScope : ~warehouse_inventory[product(k)].stored}
            named(kind, k) ==
                \E e \in 1..Len(lastRun.errors) :
                    /\ lastRun.errors[e].kind = kind
                    /\ \/ lastRun.errors[e].product = product(k)
                       \/ lastRun.errors[e].mapping = k
        IN
        /\ \A k \in missing :
             /\ named("not found in warehouse", k)
             /\ ShopTarget(product_mappings[k]) \notin lastRun.pushed
        /\ lastRun.skipped >= Cardinality(missing)
        /\ lastRun.synced <= Cardinality(inScope \ missing)
        /\ \A k \in inScope \ missing :
             (/\ ~named("not found in warehouse", k)
              /\ ~named("Mapping", k)
              /\ \A e \in 1..Len(lastRun.errors) :
                   lastRun.errors[e].kind # "Batch update failed")
               => ShopTarget(product_mappings[k]) \in lastRun.pushed

\* C8: when a batch import (an inventory export) has completed its loop, the
\* row of its log is SUCCESS exactly when no record failed, PARTIAL exactly
\* when a record failed and one was imported (synced), FAILED exactly when a
\* record failed and none was imported (synced), and records_processed and
\* records_failed of the row are the counts of the run.
C8_CompletedLoopClosesLog ==
    (lastRun.op \in {"import", "export"} /\ lastRun.loopCompleted) =>
        LET row == sync_logs[lastRun.logId]
            done == IF lastRun.op = "import" THEN lastRun.imported ELSE lastRun.synced
        IN
        /\ (row.status = "SUCCESS") <=> (lastRun.failed = 0)
        /\ (row.status = "PARTIAL") <=> (lastRun.failed > 0 /\ done > 0)
        /\ (row.status = "FAILED") <=> (lastRun.failed > 0 /\ done = 0)
        /\ row.records_processed = done + lastRun.skipped
        /\ row.records_failed = lastRun.failed

\* C6: however two imports of one server interleave, at most one order is
\* stored for an external id and an integration.
C6_OneOrderPerExternalId ==
    \A id \in WooOrderIds, i \in IntegrationIds :
        Cardinality(MatchingOrders(ops_orders, id, i)) <= 1

C12_OnlySignedRequestsAreQueued ==
    (lastRun.op = "intake" /\ (lastRun.queued \/ lastRun.ordersInserted > 0)) =>
        /\ lastRun.integrationId \in DOMAIN integrations
        /\ integrations[lastRun.integrationId].is_active
        /\ integrations[lastRun.integrationId].webhookSecret # ""
        /\ lastRun.signature = <<integrations[lastRun.integrationId].webhookSecret,
                                 lastRun.payload>>

\* C18: an entry is queued as PENDING, no entry is ever deleted, and the
\* entry whose processing was attempted, by the intake route or by the retry
\* route, is COMPLETED or FAILED and carries its processing time.
C18_ProcessedEntryLeavesPending ==
    /\ lastRun.op \in {"intake", "retry"} => Len(webhook_queue) >= lastRun.entriesBefore
    /\ (lastRun.op = "intake" /\ lastRun.queued /\ ~lastRun.ran)
         => webhook_queue[lastRun.entry].status = "PENDING"
    /\ \/ lastRun.op = "intake" /\ lastRun.ran
       \/ lastRun.op = "retry" /\ lastRun.attempted
       => /\ webhook_queue[lastRun.entry].status \in {"COMPLETED", "FAILED"}
          /\ webhook_queue[lastRun.entry].processed
KeyOps == {"createKey", "listKeys", "revokeKey", "authenticate"}
\* the rows of keys a presentation of key at time now may be accepted for
AcceptableRows(keys, key, now) ==
    {k \in 1..Len(keys) : /\ keys[k].key_hash = sha256(key)
                          /\ keys[k].is_active
                          /\ (keys[k].expires_at = NoExpiry \/ keys[k].expires_at >= now)}

\* C13: a verification returns a key record only for a secret whose digest
\* is that of a stored key which is active and not expired, and the record is
\* that key's; for any other secret no record is returned, and null is the
\* answer whenever the lookup itself is answered; a revoked key stays revoked
\* through every operation, and no second row carries its digest, so each
\* later verification of its secret returns null
C13_OnlyActiveUnexpiredKeysVerify ==
    /\ \A k1, k2 \in 1..Len(api_keys) : api_keys[k1].key_hash = api_keys[k2].key_hash => k1 = k2
    /\ lastRun.op \in KeyOps =>
         \A k \in 1..Len(lastRun.keysBefore) :
           ~lastRun.keysBefore[k].is_active =>
             /\ k <= Len(api_keys)
             /\ ~api_keys[k].is_active
             /\ api_keys[k].key_hash = lastRun.keysBefore[k].key_hash
    /\ (lastRun.op = "revokeKey" /\ lastRun.code = 200 /\ lastRun.id <= Len(api_keys)) =>
         ~api_keys[lastRun.id].is_active
    /\ (lastRun.op = "authenticate" /\ lastRun.bearer) =>
         LET rows == AcceptableRows(lastRun.keysBefore, lastRun.key, lastRun.now) IN
         /\ lastRun.returned # <<>> =>
              /\ lastRun.code = 200
              /\ \E k \in rows : /\ lastRun.returned[1].id = k
                                 /\ lastRun.returned[1].key_hash = sha256(lastRun.key)
         /\ rows = {} => lastRun.returned = <<>> /\ lastRun.code # 200
         /\ (rows = {} /\ ~lastRun.lookupError) => lastRun.code = 401
         /\ (rows # {} /\ ~lastRun.lookupError) => lastRun.returned # <<>>

\* a key that was verified once, then revoked, is presented and refused
C13_Witness ==
    /\ lastRun.op = "authenticate" /\ lastRun.bearer /\ ~lastRun.lookupError
    /\ lastRun.code = 401
    /\ \E k \in 1..Len(lastRun.keysBefore) :
         /\ lastRun.keysBefore[k].key_hash = sha256(lastRun.key)
         /\ lastRun.keysBefore[k].last_used
         /\ ~lastRun.keysBefore[k].is_active

\* C14: every stored key row holds the digest and the 12-character prefix of
\* one secret and the secret itself in no column; the call that creates a key
\* returns its secret, a secret no row existed for before, and neither the
\* listing nor a verification returns a secret in any field
C14_SecretIsReturnedOnlyAtIssue ==
    /\ \A k \in 1..Len(api_keys) :
         /\ api_keys[k].key_hash \notin ApiSecrets
         /\ api_keys[k].key_prefix \notin ApiSecrets
         /\ \E key \in ApiSecrets : /\ api_keys[k].key_hash = sha256(key)
                                    /\ api_keys[k].key_prefix = keyPrefixOf(key)
    /\ (lastRun.op = "createKey" /\ lastRun.code = 201) =>
         /\ Len(lastRun.returned) = 1
         /\ lastRun.returned[1].key \in ApiSecrets
         /\ Len(api_keys) = Len(lastRun.keysBefore) + 1
         /\ api_keys[Len(api_keys)].key_hash = sha256(lastRun.returned[1].key)
         /\ \A k \in 1..Len(lastRun.keysBefore) :
              lastRun.keysBefore[k].key_hash # sha256(lastRun.returned[1].key)
    /\ (lastRun.op = "createKey" /\ lastRun.code # 201) => lastRun.returned = <<>>
    /\ lastRun.op \in {"listKeys", "authenticate"} =>
         \A r \in 1..Len(lastRun.returned) :
           /\ "key" \notin DOMAIN lastRun.returned[r]
           /\ lastRun.returned[r].key_prefix \notin ApiSecrets
           /\ "key_hash" \in DOMAIN lastRun.returned[r] =>
                lastRun.returned[r].key_hash \notin ApiSecrets

\* a key is issued, then listed and verified
C14_Witness ==
    /\ lastRun.op = "authenticate" /\ lastRun.code = 200
    /\ lastRun.returned[1].name = "erp"
    /\ lastRun.returned[1].key_hash = sha256(lastRun.key)

PipelineOps == {"import", "export", "webhook"}
TerminalStatuses == {"SUCCESS", "PARTIAL", "FAILED"}

\* C15: an invocation of a pipeline that created its log row has added that
\* one row to the log table and leaves it in a terminal status, whether the
\* invocation returned or threw; the rows of earlier invocations are terminal
\* as well
C15_NoLogRowLeftRunning ==
    (lastRun.op \in PipelineOps /\ lastRun.logId # 0) =>
        /\ lastRun.logId = Len(sync_logs)
        /\ \A k \in 1..Len(sync_logs) : sync_logs[k].status \in TerminalStatuses

\* C16: a pipeline invocation that has created its log row returns a result;
\* an invocation throws only when it has no log row
C16_NoExceptionOnceLogged ==
    (lastRun.op \in PipelineOps /\ lastRun.threw) => lastRun.logId = 0

\* the positions of the error strings of kind in errors
ErrorsOfKind(errors, kind) == {e \in 1..Len(errors) : errors[e].kind = kind}

EntriesOf(params) == {params[k] : k \in 1..Len(params)}

\* C19: two requests are signed alike exactly when they have the same method
\* (in upper case), URL, consumer secret and set of parameters (timestamp and
\* nonce among them): the order in which the parameters were supplied does
\* not count, and a change of any one parameter changes the signature
C19_SignatureIsFunctionOfParameterSet ==
    lastRun.op = "sign" =>
        LET a == lastRun.first
            b == lastRun.second
            alike == /\ toUpperCase(a.input.method) = toUpperCase(b.input.method)
                     /\ a.input.url = b.input.url
                     /\ a.input.consumerSecret = b.input.consumerSecret
                     /\ EntriesOf(a.allParams) = EntriesOf(b.allParams)
        IN (a.signature = b.signature) <=> alike

\* the same two parameters supplied in the two orders are signed alike
C19_Witness ==
    /\ lastRun.op = "sign"
    /\ Len(lastRun.first.input.queryParams) = 2
    /\ lastRun.first.input.queryParams # lastRun.second.input.queryParams
    /\ EntriesOf(lastRun.first.allParams) = EntriesOf(lastRun.second.allParams)
    /\ lastRun.first.signature = lastRun.second.signature

\* C20: every body sent by a stock update (of a product, of a variation, and
\* each entry of a batch) carries the quantity asked for, manage_stock true,
\* and stock_status instock when that quantity is above 0, outofstock
\* otherwise
C20_StockStatusFollowsQuantity ==
    lastRun.op = "stock" =>
        /\ Len(lastRun.sent) = Len(lastRun.asked)
        /\ \A k \in 1..Len(lastRun.sent) :
             LET body == lastRun.sent[k].body IN
             /\ body.stock_quantity = lastRun.asked[k]
             /\ body.manage_stock
             /\ body.stock_status = IF lastRun.asked[k] > 0 THEN "instock" ELSE "outofstock"

\* a batch with an entry of quantity 0 and an entry above 0 was sent
C20_Witness ==
    /\ lastRun.op = "stock" /\ lastRun.call = "batchUpdateProducts"
    /\ Len(lastRun.sent) = 2
    /\ lastRun.sent[1].body.stock_quantity = 0
    /\ lastRun.sent[1].body.stock_status = "outofstock"
    /\ lastRun.sent[2].body.stock_status = "instock"

\* C21: a retry inserts no row into the outbound log, and after a successful
\* retry the row retried is the one that records the success
C21_RetryInsertsNoRow ==
    lastCall.op = "retry" =>
        /\ lastCall.rowResult = "NONE"
        /\ (lastCall.success /\ lastCall.syncLogId # 0) =>
             outbound_logs[lastCall.syncLogId].result = "SUCCESS"

\* C22: a retry that read its row and passed the ceiling check leaves the
\* row with a retry_count one above the count it had, whether the platform
\* call succeeded or failed
C22_AttemptIncrementsRetryCount ==
    (/\ lastCall.op = "retry"
     /\ lastCall.syncLogId # 0
     /\ lastCall.error \notin {"Sync log not found", "Maximum retry attempts exceeded (5)"})
      => outbound_logs[lastCall.syncLogId].retry_count = lastCall.countBefore + 1

\* C23: once two interleaved retries of one row have both completed, each
\* with a push the platform accepted, the row's retry_count is the count it
\* had before them plus 2
C23_NoIncrementIsLost ==
    (\A p \in Retriers : retries[p].pc = "done" /\ retries[p].success) =>
        \A syncLogId \in TrackedLogIds :
            outbound_logs[syncLogId].retry_count = lastCall.countBefore + 2

\* a retry of row syncLogId made with a client while the datastore and the
\* platform answer: what the call returns
QuietEnv == [fail |-> "none", catchInsertOk |-> TRUE]
QuietRetry(syncLogId) ==
    retrySyncLog(outbound_logs, ops_orders, integrations, syncLogId, TRUE, QuietEnv).r
PlatformErrors == {"WooCommerce API Error", "Kubacco API error"}

\* C24: when a status push has failed at the platform call and left a FAILED
\* row, a retry of that row made next, with a client and with the datastore
\* and the platform answering, makes the platform call for the same order and
\* new status and returns success
C24_PlatformFailureIsRetryable ==
    [][(/\ lastCall.op = "sync"
        /\ lastCall.error \in PlatformErrors
        /\ lastCall.rowResult = "FAILED"
        /\ lastCall'.op = "retry"
        /\ lastCall'.syncLogId = Len(outbound_logs)
        /\ lastCall'.countBefore < MaxRetries
        /\ lastCall'.success = QuietRetry(Len(outbound_logs)).success
        /\ lastCall'.error = QuietRetry(Len(outbound_logs)).error
        /\ lastCall'.called = QuietRetry(Len(outbound_logs)).called)
       => /\ lastCall'.called = lastCall.called
          /\ lastCall'.orderId = lastCall.orderId
          /\ lastCall'.newStatus = lastCall.newStatus
          /\ lastCall'.success]_vars

\* C25: the row written for a push that failed on channel segregation names
\* no integration and no platform, and a retry of a row that names no
\* integration makes no platform call and does not return success
C25_SegregationFailureIsNeverRetried ==
    /\ (/\ lastCall.op = "sync"
        /\ lastCall.error = "Channel segregation violation"
        /\ lastCall.rowResult # "NONE")
         => /\ lastCall.rowResult = "FAILED"
            /\ outbound_logs[Len(outbound_logs)].integration_id = ""
            /\ outbound_logs[Len(outbound_logs)].platform_type = "UNKNOWN"
    /\ (/\ lastCall.op = "retry"
        /\ lastCall.syncLogId # 0
        /\ outbound_logs[lastCall.syncLogId].integration_id = "")
         => /\ lastCall.called = "NONE"
            /\ ~lastCall.success

\* a retry of the row of an order whose channel its platform does not serve
C25_Witness ==
    /\ lastCall.op = "retry"
    /\ lastCall.syncLogId # 0
    /\ outbound_logs[lastCall.syncLogId].result = "FAILED"
    /\ outbound_logs[lastCall.syncLogId].integration_id = ""
    /\ lastCall.error = "Integration not found"
    /\ LET order == ops_orders[lastCall.orderId] IN
         /\ order.stored
         /\ ~validateChannelSegregation(order.channel,
                                        integrations[order.integration_id].platform_type)

\* the errors of the two lookups of syncStatusToExternalPlatform
LookupErrors == {"Order not found", "Integration not found for order"}

\* C27: the FAILED row of a push whose order and integration lookups both
\* succeeded records the order's channel, the integration id and the
\* integration's platform type
C27_FailedRowRecordsTheRoute ==
    (/\ lastCall.op = "sync"
     /\ lastCall.rowResult = "FAILED"
     /\ lastCall.error \notin LookupErrors)
      => LET row == outbound_logs[Len(outbound_logs)]
             order == ops_orders[lastCall.orderId]
         IN /\ row.channel = order.channel
            /\ row.integration_id = order.integration_id
            /\ row.platform_type = integrations[order.integration_id].platform_type

\* the mappings of the table that an export of lastRun may push: those of its
\* integration with inventory sync on and, under a filter, inside the filter
Exportable ==
    {k \in 1..Len(product_mappings) :
       /\ product_mappings[k].integration_id = lastRun.integrationId
       /\ product_mappings[k].sync_inventory
       /\ (lastRun.filter # {} =>
             product_mappings[k].warehouse_product_id \in lastRun.filter)}
ExportableTargets == {ShopTarget(product_mappings[k]) : k \in Exportable}

\* C28: every stock update an export sends is for a mapping with inventory
\* sync on and inside the product filter; total is the number of such
\* mappings, and a run that returns has total = synced + skipped + failed
C28_ExportPushesOnlyEnabledFilteredMappings ==
    lastRun.op = "export" =>
        /\ \A j \in 1..Len(lastRun.calls) :
             LET c == lastRun.calls[j] IN
             IF c.call = "updateProductVariationStock"
               THEN c.target \in ExportableTargets
               ELSE \A i \in 1..Len(c.ids) : <<c.ids[i], 0>> \in ExportableTargets
        /\ lastRun.pushed \subseteq ExportableTargets
        /\ lastRun.loopCompleted => lastRun.total = Cardinality(Exportable)
        /\ ~lastRun.threw =>
             lastRun.total = lastRun.synced + lastRun.skipped + lastRun.failed

\* an export under a filter that sent an update and returned, while a mapping
\* of the table is outside the filter or has its inventory sync off
C28_Witness ==
    /\ lastRun.op = "export"
    /\ ~lastRun.threw
    /\ lastRun.filter # {}
    /\ lastRun.calls # <<>>
    /\ lastRun.total = 1
    /\ \E k \in 1..Len(product_mappings) :
         /\ ~product_mappings[k].sync_inventory
         /\ product_mappings[k].warehouse_product_id \notin lastRun.filter

\* the mappings an export of lastRun worked on whose quantity it resolved, in
\* the order of the loop: those with an external variation id, and the others
Resolved(k) ==
    \A j \in 1..Len(lastRun.errors) :
       ~(/\ lastRun.errors[j].kind = "not found in warehouse"
         /\ lastRun.errors[j].product = product_mappings[k].warehouse_product_id)
ResolvedVariations ==
    SelectSeq(lastRun.scope,
              LAMBDA k : Resolved(k) /\ product_mappings[k].external_variation_id # "")
ResolvedSimple ==
    SelectSeq(lastRun.scope,
              LAMBDA k : Resolved(k) /\ product_mappings[k].external_variation_id = "")

C26_OneMappingPerExternalProduct ==
    \A k, l \in 1..Len(product_mappings) :
        (/\ product_mappings[k].integration_id = product_mappings[l].integration_id
         /\ product_mappings[k].external_product_id = product_mappings[l].external_product_id
         /\ product_mappings[k].external_variation_id
              = product_mappings[l].external_variation_id)
          => k = l

\* the SKUs an auto-map run counted as errors
FailedSkus == {lastRun.errors[j][2] : j \in 1..Len(lastRun.errors)}

\* C30: an auto-map run that got to its loop does not throw, and every product
\* of the page whose SKU matches a variation, had no mapping before the run
\* and was not counted as an error has a mapping afterwards, typed CIGAR with
\* inventory sync on
C30_OneBadProductDoesNotAbortAutoMap ==
    (lastRun.op = "autoMap" /\ lastRun.started) =>
        /\ ~lastRun.threw
        /\ \A j \in 1..Len(lastRun.wooProducts) :
             LET wooProduct == lastRun.wooProducts[j] IN
             (/\ wooProduct.sku # ""
              /\ findVariation(wooProduct.sku) # 0
              /\ ~findProductMappingBySku(lastRun.before, lastRun.integrationId,
                                          wooProduct.sku, FALSE).found
              /\ wooProduct.sku \notin FailedSkus)
               => \E k \in 1..Len(product_mappings) :
                    /\ product_mappings[k].integration_id = lastRun.integrationId
                    /\ product_mappings[k].external_product_id = toString(wooProduct.id)
                    /\ product_mappings[k].sku = wooProduct.sku
                    /\ product_mappings[k].warehouse_product_type = "CIGAR"
                    /\ product_mappings[k].sync_inventory

\* C31: an import whose insert of the line items was refused leaves the order
\* stored: the webhook import returns success and closes its log as SUCCESS,
\* and the batch import counts the order as imported and lists no error for it
C31_ItemFailureKeepsTheOrder ==
    /\ (lastRun.op = "webhook" /\ lastRun.itemsFailed) =>
         /\ lastRun.success
         /\ lastRun.ordersInserted = 1
         /\ lastRun.itemsInserted = 0
         /\ MatchingOrders(ops_orders, lastRun.externalOrderId, lastRun.integrationId) # {}
         /\ ~lastRun.threw => /\ sync_logs[lastRun.logId].status = "SUCCESS"
                              /\ sync_logs[lastRun.logId].records_failed = 0
    /\ (lastRun.op = "import" /\ lastRun.loopCompleted) =>
         /\ \A j \in 1..Len(lastRun.itemsFailed) :
              /\ MatchingOrders(ops_orders, lastRun.itemsFailed[j],
                                lastRun.integrationId) # {}
              /\ \A e \in 1..Len(lastRun.errors) :
                   lastRun.errors[e][2] # lastRun.itemsFailed[j]
         /\ lastRun.imported >= Len(lastRun.itemsFailed)
         /\ lastRun.imported + lastRun.skipped + lastRun.failed = Len(lastRun.batch)
         /\ lastRun.failed = Len(lastRun.errors)

\* a batch import that stored an order without its line items and returned
C31_Witness ==
    /\ lastRun.op = "import"
    /\ ~lastRun.threw
    /\ Len(lastRun.itemsFailed) = 1
    /\ lastRun.imported = 1
    /\ lastRun.failed = 0
    /\ Len(ops_order_items) = 0

\* C32: the webhook import of an order that is already stored for the
\* integration does not close its log as FAILED and leaves records_failed 0
C32_WebhookDuplicateIsNotAFailure ==
    (/\ lastRun.op = "webhook"
     /\ lastRun.ran
     /\ ~lastRun.threw
     /\ lastRun.error = "Order already imported")
      => /\ sync_logs[lastRun.logId].status # "FAILED"
         /\ sync_logs[lastRun.logId].records_failed = 0

\* C33: no step changes the channel of an order that is stored
C33_ChannelNeverChanges ==
    [][\A id \in DOMAIN ops_orders :
         ops_orders[id].stored => ops_orders'[id].channel = ops_orders[id].channel]_vars

\* C34: every stored order that names an integration has the channel that the
\* platform type of that integration serves
C34_InboundOrderMatchesItsIntegration ==
    \A id \in StoredOrders(ops_orders) :
        ops_orders[id].integration_id \in DOMAIN integrations =>
            validateChannelSegregation(
                ops_orders[id].channel,
                integrations[ops_orders[id].integration_id].platform_type)

\* C35: an export that returns counts as synced no more mappings than the
\* shop accepted updates for, and does not close its log as SUCCESS when its
\* batch update failed
C35_SyncedMeansAccepted ==
    (lastRun.op = "export" /\ ~lastRun.threw) =>
        /\ lastRun.synced <= Cardinality(lastRun.pushed)
        /\ (\E j \in 1..Len(lastRun.errors) :
              lastRun.errors[j].kind = "Batch update failed")
             => sync_logs[lastRun.logId].status # "SUCCESS"

\* C36: after a batch import or an inventory export that returned, the
\* integration is CONNECTED with its last-sync time refreshed and no error
\* message; after one that failed once its log row existed, the integration
\* is in ERROR with a message
C36_IntegrationReflectsTheLastRun ==
    (lastRun.op \in {"import", "export"} /\ lastRun.logId # 0) =>
        LET integration == integrations[lastRun.integrationId] IN
        IF lastRun.threw
          THEN integration.sync_status = "ERROR" /\ integration.error_message # ""
          ELSE /\ integration.sync_status = "CONNECTED"
               /\ integration.last_sync_at = "now"
               /\ integration.error_message = ""


\* the retry ceiling answers before any lookup
CeilingError == "Maximum retry attempts exceeded (5)"

\* C37: when the status of an ONLINE order of a WOOCOMMERCE integration, with
\* a numeric external id, is changed through PUT /orders/:id or the bulk
\* route, or its row is retried through the retry route, and the rows read
\* on the way are found, the shop's order update is called with the mapped
\* status
C37_RoutesReachTheShop ==
    (/\ lastCall.op \in {"sync", "bulk", "retry"}
     /\ lastCall.orderId \in DOMAIN ops_orders
     /\ ops_orders[lastCall.orderId].stored
     /\ ops_orders[lastCall.orderId].channel = "ONLINE"
     /\ ops_orders[lastCall.orderId].external_order_id = "17"
     /\ integrations[ops_orders[lastCall.orderId].integration_id].platform_type
          = "WOOCOMMERCE"
     /\ lastCall.error \notin LookupErrors \cup {"Sync log not found", CeilingError})
    => /\ lastCall.called = "WOOCOMMERCE"
       /\ lastCall.sent = mapToWooCommerceStatus(lastCall.newStatus)


\* C38: a step of PUT /orders/:id or of the bulk route that changes the
\* status of a stored order, finds the order and its integration and writes
\* a log row writes a row whose
\* old_status is the status before the step and whose new_status is the
\* status after it
C38_RowRecordsTheStatusChange ==
    [][\A id \in DOMAIN ops_orders :
         (/\ ops_orders[id].stored
          /\ ops_orders'[id].status # ops_orders[id].status
          /\ lastCall'.op \in {"sync", "bulk"}
          /\ lastCall'.orderId = id
          /\ lastCall'.error \notin LookupErrors
          /\ Len(outbound_logs') = Len(outbound_logs) + 1)
         => /\ outbound_logs'[Len(outbound_logs')].old_status = ops_orders[id].status
            /\ outbound_logs'[Len(outbound_logs')].new_status = ops_orders'[id].status]_vars

\* the platform answered the last push with an acceptance
Accepted == lastCall.called # "NONE" /\ lastCall.error \notin PlatformErrors

\* C39: a push returns success exactly when the platform accepted the update,
\* and an accepted push leaves no FAILED row
C39_SuccessMeansAccepted ==
    lastCall.op = "sync"
    => /\ lastCall.success <=> Accepted
       /\ Accepted => lastCall.rowResult # "FAILED"


\* C40: a retry of a queue entry that answers 200, and so has marked the
\* entry COMPLETED, leaves the order of the entry's payload stored for the
\* entry's integration; when that order is not stored after the retry the
\* entry is not COMPLETED
C40_CompletedMeansStored ==
    (lastRun.op = "retry" /\ lastRun.attempted) =>
        LET entry == webhook_queue[lastRun.entry]
            stored == MatchingOrders(ops_orders, entry.payload, entry.integration_id) # {}
        IN
        /\ lastRun.code = 200 => stored
        /\ ~stored => entry.status # "COMPLETED"

====
